---- MODULE Spec2Model ----
(***************************************************************************)
(* Model of the compliance gatekeeping pipeline of the healthcare audio    *)
(* upload service: the request gatekeeper (security_middleware.py), the    *)
(* register-encrypted-upload handler (app.py), the key manager             *)
(* (kms_manager.py), the PHI scan (dlp_manager.py), the audit logger       *)
(* (audit_logger.py) and the persistence calls (storage_handler.py,        *)
(* fhir_converter.py).                                                     *)
(*                                                                         *)
(* Spec      one request at a time: before_request is one step, the        *)
(*           handler advances one external call per step.                  *)
(* SpecGate  one request at a time on routes that keep no state, with the  *)
(*           clock running.                                                *)
(* SpecConc  several requests inside check_rate_limit at once, one         *)
(*           bytecode-level step of the function per action.               *)
(* SpecRead  get_medical_records over a store filled by registrations.     *)
(* SpecScan  scan_text_for_phi and create_data_classification applied to   *)
(*           the answers of the DLP backend.                               *)
(* SpecAudit the four operations of the audit logger, called in any order. *)
(* SpecBlocked  the traffic of SpecGate once a client is on the blocklist.  *)
(* SpecInspect  before_request on one request with any inspected strings.   *)
(* SpecFhir  convert_audio_metadata_to_fhir applied to upload metadata and *)
(*           validate_fhir_resource applied to the result.                 *)
(***************************************************************************)
EXTENDS Integers, Sequences, FiniteSets, Bags, TLC

(* ------------------------------ bounds --------------------------------- *)
\* largest configured request limit explored
MaxLimit == 2
\* largest configured window length (in clock ticks) explored
MaxWindow == 2
\* last clock value
MaxTime == 2
\* number of requests the server receives (Spec)
MaxRequests == 2
\* number of those that are sent to /register-upload-fhir (Spec)
MaxRegistrations == 1
\* number of requests the server receives (SpecGate)
MaxGateRequests == 4
\* number of requests inside before_request at once (SpecConc)
NThreads == 3
\* number of requests the server receives (SpecConc)
MaxConcRequests == 5

Clients == {"10.0.0.1", "10.0.0.2"}
\* the client whose requests Spec and SpecConc follow (SpecGate follows all)
BusyClients == {"10.0.0.1"}

(* ------------------------------ values --------------------------------- *)
\* A Python value of the request or of a stored row: None, a str, a uuid4
\* string, bytes, a KMS ciphertext, or base64 text of a ciphertext.  prefix
\* holds what an f-string put in front of it.
Val(kind, pt, key) == [kind |-> kind, pt |-> pt, key |-> key, prefix |-> ""]
None == Val("none", "", 0)
Str(s) == Val("str", s, 0)
Uuid(n) == Val("uuid", "", n)

\* Python truthiness of a value: None and "" are falsy
Truthy(v) == v.kind # "none" /\ ~(v.kind = "str" /\ v.pt = "" /\ v.prefix = "")

(* --------------------------- gatekeeper -------------------------------- *)
VARIABLES
  limit,               \* check_rate_limit's limit parameter (default)
  window,              \* check_rate_limit's window_minutes parameter (default)
  now,                 \* datetime.now()
  rate_limit_storage,  \* SecurityMiddleware.rate_limit_storage
  blocked_ips,         \* SecurityMiddleware.blocked_ips
  sent,                \* history: a client's requests of the last window,
                       \* each with its time and whether it was admitted
  nreq,                \* number of requests received so far
  nreg,                \* number of them sent to /register-upload-fhir
  req,                 \* the request being served (Spec)
  thr,                 \* the requests inside before_request (SpecConc)
  tally,               \* history: how many requests of a client ended how
  audit_log,           \* the entries of the "healthcare-audit-log" sink
  audio_files,         \* rows of BigQuery table audio_files
  fhir_resources,      \* rows of BigQuery table fhir_resources
  uploads,             \* blobs and audio_records rows written by /upload
  read_pc,             \* get_medical_records: where the handler is
  results,             \* get_medical_records: the rows the query returned
  decrypted_records,   \* get_medical_records: the records built so far
  read_status,         \* get_medical_records: the status it answered with
  registered,          \* history: the plaintext values of the registrations
                       \* whose rows the store holds (SpecRead)
  kms_failed,          \* history: for each record, whether a decrypt call
                       \* made for it raised
  dlp_response,        \* what the DLP backend answers for the content scanned
  scan_result,         \* what the last call of scan_text_for_phi returned
  classification,      \* what the last call of create_data_classification
                       \* returned
  fhir_in,             \* the metadata handed to the FHIR converter (SpecFhir)
  fhir_out,            \* the Bundle convert_audio_metadata_to_fhir returned
  validation           \* the last call of validate_fhir_resource: its
                       \* argument and its answer

gateVars == <<limit, window, now, rate_limit_storage, blocked_ips, sent>>
concVars == <<thr, tally>>
storeVars == <<audit_log, audio_files, fhir_resources, uploads>>
readVars == <<read_pc, results, decrypted_records, read_status, registered, kms_failed>>
dlpVars == <<dlp_response, scan_result, classification>>
fhirVars == <<fhir_in, fhir_out, validation>>
libVars == <<readVars, dlpVars, fhirVars>>
vars == <<limit, window, now, rate_limit_storage, blocked_ips, sent, nreq, nreg,
          req, thr, tally, audit_log, audio_files, fhir_resources, uploads,
          readVars, dlpVars, fhirVars>>

\* a variant that also drops the timestamps equal to window_start
PruneOldInclusive(q, window_start) == SelectSeq(q, LAMBDA t : t > window_start)

\* the "Clean old entries" loop: popleft while the head is older than
\* window_start
RECURSIVE PruneOld(_, _)
PruneOld(q, window_start) ==
  IF q # <<>> /\ Head(q) < window_start THEN PruneOld(Tail(q), window_start)
  ELSE q

\* a variant that lets the request at the limit through
OverLimitStrict(current_requests, lim) == current_requests > lim

\* current_requests >= limit
OverLimit(current_requests, lim) == current_requests >= lim

\* current_requests > limit * 2
SeverelyOver(current_requests, lim) == current_requests > lim * 2

\* a variant that leaves the append to a later step
check_rate_limit_noappend(ip, lim, win, t) ==
  LET pruned == PruneOld(rate_limit_storage[ip], t - win)
  IN [storage |-> [rate_limit_storage EXCEPT ![ip] = pruned],
      blocked |-> IF Len(pruned) > lim * 2 THEN blocked_ips \cup {ip} ELSE blocked_ips,
      ok |-> Len(pruned) < lim]

\* check_rate_limit(ip, limit, window_minutes) run without interruption:
\* the new storage, the new blocklist and the returned bool
check_rate_limit(ip, lim, win, t) ==
  LET pruned == PruneOld(rate_limit_storage[ip], t - win)
      current_requests == Len(pruned)
  IN IF OverLimit(current_requests, lim)
     THEN [storage |-> [rate_limit_storage EXCEPT ![ip] = pruned],
           blocked |-> IF SeverelyOver(current_requests, lim)
                       THEN blocked_ips \cup {ip} ELSE blocked_ips,
           ok |-> FALSE]
     ELSE [storage |-> [rate_limit_storage EXCEPT ![ip] = Append(pruned, t)],
           blocked |-> blocked_ips,
           ok |-> TRUE]

\* a variant that never finds the address
is_ip_blocked_never(ip) == FALSE

is_ip_blocked(ip) == ip \in blocked_ips

\* history kept for the window's length only: the requests not older than
\* window_start
Within(q, window_start) == SelectSeq(q, LAMBDA e : e.t >= window_start)
Sent(t, ok) == [t |-> t, admitted |-> ok]
\* how many requests of client c the last window holds, and how many of them
\* check_rate_limit admitted
SentInWindow(c) == Len(Within(sent[c], now - window))
AdmittedInWindow(c) ==
  Len(SelectSeq(sent[c], LAMBDA e : e.admitted /\ e.t >= now - window))

(* ---------------------------- requests --------------------------------- *)
\* required_fields of register_upload_fhir
RequiredFields == <<"file_name", "file_size", "file_type">>
AllFields == {RequiredFields[i] : i \in 1..Len(RequiredFields)}

PatientId == Str("123-45-6789")
OperatorName == Str("Dr. Smith")
FileName == Str("x.wav")

\* the (patient_id, operator_name) pairs a JSON object carries in this
\* model: absent, empty or given
PayloadFields ==
  {<<None, None>>, <<Str(""), OperatorName>>, <<PatientId, None>>,
   <<PatientId, OperatorName>>}

\* Strings the gatekeeper inspects are sequences of pieces of text, each
\* piece one of Tokens; "nl" is a line break.
Tokens == {"<", ">", "script", "Union", "select", "../", "JavaScript:", "vbscript:", "a", "nl"}

\* str.lower() on a piece
LowerToken(tok) ==
  CASE tok = "Union" -> "union"
    [] tok = "JavaScript:" -> "javascript:"
    [] OTHER -> tok

\* content.lower()
Lower(content) == [i \in 1..Len(content) |-> LowerToken(content[i])]

\* the six regular expressions of suspicious_patterns
suspicious_patterns ==
  {"<script.*?>", "union.*select", "\\.\\./", "<.*?>", "javascript:", "vbscript:"}

\* "." matches every character but a line break: no line break in text[i..j]
NoBreak(text, i, j) == \A k \in i..j : text[k] # "nl"

\* re.search(pattern, text): the pattern matches somewhere in text
re_search(pattern, text) ==
  CASE pattern = "<script.*?>" ->
         \E i \in 1..Len(text), j \in 1..Len(text) :
           /\ i + 1 < j
           /\ text[i] = "<" /\ text[i + 1] = "script" /\ text[j] = ">"
           /\ NoBreak(text, i + 2, j - 1)
    [] pattern = "union.*select" ->
         \E i \in 1..Len(text), j \in 1..Len(text) :
           /\ i < j
           /\ text[i] = "union" /\ text[j] = "select"
           /\ NoBreak(text, i + 1, j - 1)
    [] pattern = "\\.\\./" -> \E i \in 1..Len(text) : text[i] = "../"
    [] pattern = "<.*?>" ->
         \E i \in 1..Len(text), j \in 1..Len(text) :
           /\ i < j
           /\ text[i] = "<" /\ text[j] = ">"
           /\ NoBreak(text, i + 1, j - 1)
    [] pattern = "javascript:" -> \E i \in 1..Len(text) : text[i] = "javascript:"
    [] pattern = "vbscript:" -> \E i \in 1..Len(text) : text[i] = "vbscript:"

\* a variant that searches the content as it was sent
contains_malicious_pattern_cs(content) ==
  \E pattern \in suspicious_patterns : re_search(pattern, content)

\* contains_malicious_pattern: the content in lower case is searched for
\* each pattern
contains_malicious_pattern(content) ==
  \E pattern \in suspicious_patterns : re_search(pattern, Lower(content))

\* a string that holds a script tag, and one that holds nothing
Attack == <<"<", "script", ">">>
Benign == <<"a">>

\* A request the server has not looked at yet.  body: what the request
\* carries as its body (not JSON, JSON text that does not parse, the JSON
\* null, a JSON list or string, a JSON object); malicious: which inspected
\* part was made to hold an attack; args, json_str, form: the value of the
\* URL parameter, str(json_data) and the value of the form field (empty
\* where the request has none); upload_field, ext_ok: the name
\* of the attachment field and whether its extension is an allowed one.
\* The fields of a JSON object are filled in when get_json parses it.
\* sinkfail and trace are history: whether an audit write of the request
\* failed, and the steps of the handler the request has entered.
NewRequest(c, path, body, mal, field, ext_ok) ==
  [id |-> nreq + 1, pc |-> "before_request", client |-> c, path |-> path,
   body |-> body, malicious |-> mal,
   args |-> IF mal = "args" THEN Attack ELSE <<>>,
   json_str |-> IF body \notin {"nonobj", "obj"} THEN <<>>
                ELSE IF mal = "json" THEN Attack ELSE Benign,
   form |-> IF mal = "form" THEN Attack ELSE <<>>,
   upload_field |-> field, ext_ok |-> ext_ok,
   present |-> {}, patient_id |-> None, operator_name |-> None,
   status |-> 0, cause |-> "", data |-> "unbound",
   has_phi |-> FALSE, findings |-> <<>>, risk_level |-> "",
   encrypted_patient_id |-> None, encrypted_operator_name |-> None,
   bundle |-> <<>>, stored |-> 0, sinkfail |-> FALSE, trace |-> <<>>,
   response |-> [keys |-> {}, success |-> FALSE, error |-> "",
                 fhir_bundle_id |-> None, fhir_resources_created |-> 0,
                 security_scan |-> [keys |-> {}, phi_detected |-> FALSE,
                                    risk_level |-> "", findings |-> <<>>]]]

NoRequest ==
  [id |-> 0, pc |-> "idle", client |-> "10.0.0.1", path |-> "",
   body |-> "notjson", malicious |-> "none",
   args |-> <<>>, json_str |-> <<>>, form |-> <<>>,
   upload_field |-> "none", ext_ok |-> TRUE,
   present |-> {}, patient_id |-> None, operator_name |-> None,
   status |-> 0, cause |-> "", data |-> "unbound",
   has_phi |-> FALSE, findings |-> <<>>, risk_level |-> "",
   encrypted_patient_id |-> None, encrypted_operator_name |-> None,
   bundle |-> <<>>, stored |-> 0, sinkfail |-> FALSE, trace |-> <<>>,
   response |-> [keys |-> {}, success |-> FALSE, error |-> "",
                 fhir_bundle_id |-> None, fhir_resources_created |-> 0,
                 security_scan |-> [keys |-> {}, phi_detected |-> FALSE,
                                    risk_level |-> "", findings |-> <<>>]]]

RegisterRequests(c) ==
  {NewRequest(c, "/register-upload-fhir", b, "none", "none", TRUE) :
      b \in {"notjson", "invalid", "null", "nonobj", "obj"}}
  \cup
  {NewRequest(c, "/register-upload-fhir", "obj", m, "none", TRUE) :
      m \in {"args", "json"}}

UploadRequests(c) ==
  {NewRequest(c, "/upload", "notjson", "none", fld, ok) :
      fld \in {"file", "audio"}, ok \in BOOLEAN}
  \cup {NewRequest(c, "/upload", "notjson", m, "none", TRUE) : m \in {"none", "form"}}

\* traffic for routes whose handlers keep no state: GET /health, and a POST
\* under /fhir/, which has GET routes only
GateRequests(c) ==
  {NewRequest(c, "/health", "notjson", m, "none", TRUE) : m \in {"none", "args"}}
  \cup
  {NewRequest(c, "/fhir/Media", b, "none", "none", TRUE) : b \in {"notjson", "obj"}}

\* longest inspected string (SpecInspect)
MaxContentLen == 3

Contents == UNION {[1..n -> Tokens] : n \in 0..MaxContentLen}
\* what the parts of a request hold besides the one string under test
OtherContents == {<<>>, <<"Union", "select">>}

\* the traffic of SpecInspect: a GET or POST request to /health with a URL
\* parameter and, besides, a form field (a body that is not JSON) or a JSON
\* body
InspectRequest(c, body, args, other) ==
  [NewRequest(c, "/health", body, "none", "none", TRUE)
     EXCEPT !.args = args,
            !.json_str = IF body \in {"nonobj", "obj"} THEN other ELSE <<>>,
            !.form = IF body = "notjson" THEN other ELSE <<>>]

\* request.is_json: the Content-Type of the request is JSON
is_json(r) == r.body # "notjson"

\* validate_request_content: URL parameters, then the JSON body when the
\* request is JSON (a body that does not parse is refused, a falsy body is
\* not inspected), then the form fields
validate_request_content(r) ==
  IF contains_malicious_pattern(r.args) THEN FALSE
  ELSE IF is_json(r) /\ r.body = "invalid" THEN FALSE
  ELSE IF is_json(r) /\ r.body \in {"nonobj", "obj"}
          /\ contains_malicious_pattern(r.json_str) THEN FALSE
  ELSE IF r.form # <<>> /\ contains_malicious_pattern(r.form) THEN FALSE
  ELSE TRUE

\* validate_healthcare_request: a POST under /fhir/ needs a JSON content
\* type; under /upload the attachment named 'file' needs an allowed extension
validate_healthcare_request(r) ==
  IF r.path = "/fhir/Media" /\ ~is_json(r) THEN FALSE
  ELSE IF r.path = "/upload" /\ r.upload_field = "file" /\ ~r.ext_ok THEN FALSE
  ELSE TRUE

\* a variant that hands the findings of the scan to the caller
SecurityScanWithFindings(r) ==
  [keys |-> {"phi_detected", "risk_level", "findings"},
   phi_detected |-> r.has_phi, risk_level |-> r.risk_level, findings |-> r.findings]

\* the 'security_scan' object of the success response; keys is the set of
\* its keys
SecurityScan(r) ==
  [keys |-> {"phi_detected", "risk_level"},
   phi_detected |-> r.has_phi, risk_level |-> r.risk_level, findings |-> <<>>]

NoSecurityScan ==
  [keys |-> {}, phi_detected |-> FALSE, risk_level |-> "", findings |-> <<>>]

\* a JSON response body: keys is the set of its keys, a field whose key is
\* not set holds nothing; error stands for the text of 'error'
Body(keys, success, error) ==
  [keys |-> keys, success |-> success, error |-> error,
   fhir_bundle_id |-> None, fhir_resources_created |-> 0,
   security_scan |-> NoSecurityScan]

\* no response yet
NoBody == Body({}, FALSE, "")

\* the page Flask answers with when an exception leaves a handler
FlaskError == Body({}, FALSE, "Internal Server Error")

\* the body of the response a request is answered with
ResponseBody(r, status, cause) ==
  IF cause \in {"blocklisted", "rate_limited", "malicious_content",
                "invalid_healthcare_request", "method_not_allowed"}
  THEN Body({"error"}, FALSE, cause)
  ELSE IF r.path = "/register-upload-fhir"
  THEN IF status = 200
       THEN [Body({"success", "message", "read_url", "fhir_bundle_id",
                   "fhir_resources_created", "security_scan"}, TRUE, "")
               EXCEPT !.fhir_bundle_id = r.bundle[1].id,
                      !.fhir_resources_created = Len(r.bundle[1].entry),
                      !.security_scan = SecurityScan(r)]
       ELSE Body({"success", "error"}, FALSE, cause)
  ELSE IF r.path = "/health"
  THEN IF status = 200 THEN Body({"status", "storage"}, TRUE, "")
       ELSE Body({"status", "error"}, FALSE, cause)
  ELSE IF status = 200
  THEN Body({"message", "file_name", "gcs_url", "public_url", "user_id"}, TRUE, "")
  ELSE Body({"error"}, FALSE, cause)

Finish(r, status, cause) ==
  [r EXCEPT !.pc = "done", !.status = status, !.cause = cause,
            !.response = ResponseBody(r, status, cause)]

\* where Flask sends a request that before_request let through
Dispatch(r) ==
  IF r.path = "/register-upload-fhir" THEN [r EXCEPT !.pc = "get_json"]
  ELSE IF r.path = "/upload" THEN [r EXCEPT !.pc = "upload_audio"]
  ELSE IF r.path = "/health" THEN [r EXCEPT !.pc = "health_check"]
  ELSE Finish(r, 405, "method_not_allowed")

\* a variant that notes the refusal and goes on to the handler
RejectAndGoOn(r, status, cause) == [Dispatch(r) EXCEPT !.cause = cause]

\* "return jsonify({'error': ...}), status" in before_request: Flask answers
\* with it and calls no handler
Reject(r, status, cause) == Finish(r, status, cause)

\* before_request: blocklist, rate limit, content inspection, healthcare
\* validation, each answering at once when it refuses
BeforeRequest ==
  /\ req.pc = "before_request"
  /\ LET rl == check_rate_limit(req.client, limit, window, now) IN
     IF is_ip_blocked(req.client)
     THEN /\ req' = Reject(req, 403, "blocklisted")
          /\ sent' = [sent EXCEPT ![req.client] =
                        Append(Within(@, now - window), Sent(now, FALSE))]
          /\ UNCHANGED <<rate_limit_storage, blocked_ips>>
     ELSE /\ rate_limit_storage' = rl.storage
          /\ blocked_ips' = rl.blocked
          /\ sent' = [sent EXCEPT ![req.client] =
                        Append(Within(@, now - window), Sent(now, rl.ok))]
          /\ req' = IF ~rl.ok THEN Reject(req, 429, "rate_limited")
                    ELSE IF ~validate_request_content(req)
                         THEN Reject(req, 400, "malicious_content")
                    ELSE IF ~validate_healthcare_request(req)
                         THEN Reject(req, 400, "invalid_healthcare_request")
                    ELSE Dispatch(req)
  /\ UNCHANGED <<limit, window, now, nreq, nreg, concVars, storeVars, libVars>>

\* a new request reaches the server once the previous one is answered
Arrive ==
  /\ req.pc \in {"idle", "done"}
  /\ nreq < MaxRequests
  /\ \/ /\ nreg < MaxRegistrations
        /\ \E c \in BusyClients : \E r \in RegisterRequests(c) : req' = r
        /\ nreg' = nreg + 1
     \/ /\ \E c \in BusyClients : \E r \in UploadRequests(c) : req' = r
        /\ UNCHANGED nreg
  /\ nreq' = nreq + 1
  /\ UNCHANGED <<gateVars, concVars, storeVars, libVars>>

\* the same, for the traffic of SpecGate
ArriveGate ==
  /\ req.pc \in {"idle", "done"}
  /\ nreq < MaxGateRequests
  /\ \E c \in Clients : \E r \in GateRequests(c) : req' = r
  /\ nreq' = nreq + 1
  /\ UNCHANGED <<gateVars, nreg, concVars, storeVars, libVars>>

\* health_check: storage_handler.list_files() answers or raises
HealthCheck ==
  /\ req.pc = "health_check"
  /\ \/ req' = Finish(req, 200, "")
     \/ req' = Finish(req, 500, "unhealthy")
  /\ UNCHANGED <<gateVars, nreq, nreg, concVars, storeVars, libVars>>

\* the clock advances
Tick ==
  /\ now < MaxTime
  /\ req.pc \in {"idle", "done"}
  /\ now' = now + 1
  /\ sent' = [c \in Clients |-> Within(sent[c], now' - window)]
  /\ UNCHANGED <<limit, window, rate_limit_storage, blocked_ips, nreq, nreg,
                 req, concVars, storeVars, libVars>>

(* ---------------------------- key manager ------------------------------ *)
\* crypto_key_id "patient-data-key": the one key every call names
CryptoKey == 1

\* plaintext.encode('utf-8')
Utf8Encode(v) == [v EXCEPT !.kind = "bytes"]
\* client.encrypt(name=key_name, plaintext=...).ciphertext
KmsEncrypt(key, b) == [b EXCEPT !.kind = "ciphertext", !.key = key]
\* base64.b64encode(...).decode('utf-8')
B64Encode(c) == [c EXCEPT !.kind = "b64"]

\* encrypt_sensitive_data when the KMS call succeeds
encrypt_sensitive_data(plaintext) ==
  B64Encode(KmsEncrypt(CryptoKey, Utf8Encode(plaintext)))

(* ---------------------------- PHI scan --------------------------------- *)
\* a variant without the date of birth
high_risk_types_short == {"US_SOCIAL_SECURITY_NUMBER", "MEDICAL_RECORD_NUMBER"}

high_risk_types == {"US_SOCIAL_SECURITY_NUMBER", "MEDICAL_RECORD_NUMBER", "DATE_OF_BIRTH"}

\* the findings lists the DLP backend answers with in this model
\* the text a finding of the type was matched on
QuoteOf(info_type) ==
  CASE info_type = "PERSON_NAME" -> "Dr. Smith"
    [] info_type = "US_SOCIAL_SECURITY_NUMBER" -> "123-45-6789"
    [] info_type = "MEDICAL_RECORD_NUMBER" -> "MRN-0042"
    [] info_type = "DATE_OF_BIRTH" -> "1970-01-01"

Finding(info_type, likelihood) ==
  [info_type |-> info_type, likelihood |-> likelihood, quote |-> QuoteOf(info_type)]
FindingLists ==
  {<<>>, <<Finding("PERSON_NAME", "LIKELY")>>,
   <<Finding("PERSON_NAME", "LIKELY"), Finding("US_SOCIAL_SECURITY_NUMBER", "LIKELY")>>}

_calculate_risk_level(findings) ==
  IF findings = <<>> THEN "LOW"
  ELSE IF \E i \in 1..Len(findings) : findings[i].info_type \in high_risk_types
       THEN "HIGH"
  ELSE IF Len(findings) > 3 THEN "MEDIUM"
  ELSE "LOW"

\* largest number of findings a scan answers with (SpecScan)
MaxFindings == 6

\* the findings the DLP backend reports in SpecScan
FindingKinds ==
  {Finding(t, "LIKELY") :
     t \in {"PERSON_NAME", "DATE_OF_BIRTH", "MEDICAL_RECORD_NUMBER",
            "US_SOCIAL_SECURITY_NUMBER"}}
  \cup {Finding("PERSON_NAME", "POSSIBLE")}

\* the answers of inspect_content: findings, or an exception
Response(ok, findings) == [ok |-> ok, findings |-> findings]
NoResponse == Response(TRUE, <<>>)
Responses ==
  {Response(TRUE, findings) :
     findings \in UNION {[1..n -> FindingKinds] : n \in 0..MaxFindings}}
  \cup {Response(FALSE, <<>>)}

\* what scan_text_for_phi returns for the findings the backend reported
scan_text_for_phi(findings) ==
  [called |-> TRUE, raised |-> FALSE,
   has_phi |-> Len(findings) > 0,
   findings_count |-> Len(findings),
   findings |-> findings,
   risk_level |-> _calculate_risk_level(findings)]

NoScan ==
  [called |-> FALSE, raised |-> FALSE, has_phi |-> FALSE, findings_count |-> 0, findings |-> <<>>,
   risk_level |-> ""]

\* the call left by the exception of inspect_content, re-raised
ScanRaised == [NoScan EXCEPT !.raised = TRUE]

\* _calculate_confidence, in thousandths
_calculate_confidence(result) ==
  IF ~result.has_phi THEN 950
  ELSE IF result.findings_count = 0 THEN 950
  ELSE LET high_likelihood_count ==
             Len(SelectSeq(result.findings,
                           LAMBDA f : f.likelihood \in {"VERY_LIKELY", "LIKELY"}))
           confidence == (high_likelihood_count * 900) \div result.findings_count + 100
       IN IF confidence < 990 THEN confidence ELSE 990

\* a variant with the HIGHLY_SENSITIVE threshold one lower
ClassificationOfLow(result) ==
  IF result.has_phi
  THEN IF result.findings_count > 4 THEN "HIGHLY_SENSITIVE"
       ELSE IF result.findings_count > 2 THEN "SENSITIVE"
       ELSE "POTENTIALLY_SENSITIVE"
  ELSE "PUBLIC"

\* "Determine classification based on findings"
ClassificationOf(result) ==
  IF result.has_phi
  THEN IF result.findings_count > 5 THEN "HIGHLY_SENSITIVE"
       ELSE IF result.findings_count > 2 THEN "SENSITIVE"
       ELSE "POTENTIALLY_SENSITIVE"
  ELSE "PUBLIC"

\* what create_data_classification returns for a scan result
create_data_classification(result) ==
  [called |-> TRUE,
   classification |-> ClassificationOf(result),
   confidence |-> _calculate_confidence(result)]

NoClassification == [called |-> FALSE, classification |-> "", confidence |-> 0]

DlpUnchanged ==
  UNCHANGED <<gateVars, nreq, nreg, req, concVars, storeVars, readVars, fhirVars>>

\* a call of scan_text_for_phi on the content: the findings of the
\* backend are copied and rated, or its exception is raised again
ScanTextForPhi ==
  /\ scan_result' = IF dlp_response.ok THEN scan_text_for_phi(dlp_response.findings)
                    ELSE ScanRaised
  /\ classification' = NoClassification
  /\ UNCHANGED dlp_response
  /\ DlpUnchanged

\* a call of create_data_classification on the content: its own scan, then
\* the classification of the result; a scan that raises leaves the function
CreateDataClassification ==
  /\ scan_result' = IF dlp_response.ok THEN scan_text_for_phi(dlp_response.findings)
                    ELSE ScanRaised
  /\ classification' = IF dlp_response.ok THEN create_data_classification(scan_result')
                       ELSE NoClassification
  /\ UNCHANGED dlp_response
  /\ DlpUnchanged


(* ---------------------------- audit logger ----------------------------- *)
\* the entry log_data_access hands to log_struct; req_id is history: the
\* request that wrote it
AuditEvent(event_type, user_id, resource_type, resource_id, action, patient_id, success, error_message) ==
  [event_type |-> event_type, user_id |-> user_id,
   resource_type |-> resource_type, resource_id |-> resource_id,
   action |-> action, success |-> success, patient_id |-> patient_id,
   error_message |-> error_message,
   compliance_category |-> IF Truthy(patient_id) THEN "HIPAA_PHI_ACCESS"
                           ELSE "SYSTEM_ACCESS",
   severity |-> IF ~success THEN "ERROR" ELSE "INFO",
   compliance |-> "hipaa",
   data_type |-> IF Truthy(patient_id) THEN "phi" ELSE "system",
   req_id |-> req.id]

\* a key the entry or its labels do not carry
Absent == ""

\* the entry and labels log_admin_action hands to log_struct
AdminEvent(admin_user, action, target_resource, success) ==
  [event_type |-> "ADMIN_ACTION", user_id |-> admin_user,
   resource_type |-> Absent, resource_id |-> target_resource,
   action |-> action, success |-> success, patient_id |-> None,
   error_message |-> Absent,
   compliance_category |-> Absent,
   severity |-> "NOTICE",
   compliance |-> "hipaa",
   data_type |-> Absent,
   req_id |-> req.id]

\* the entry and labels log_authentication_event hands to log_struct
AuthEvent(user_id, event_type, success) ==
  [event_type |-> "AUTH_EVENT", user_id |-> user_id,
   resource_type |-> Absent, resource_id |-> None,
   action |-> event_type, success |-> success, patient_id |-> None,
   error_message |-> Absent,
   compliance_category |-> Absent,
   severity |-> IF ~success THEN "WARNING" ELSE "INFO",
   compliance |-> "hipaa",
   data_type |-> Absent,
   req_id |-> req.id]

\* the rank of a severity of the logging sink
SeverityRank(severity) ==
  CASE severity = "DEBUG" -> 100
    [] severity = "INFO" -> 200
    [] severity = "NOTICE" -> 300
    [] severity = "WARNING" -> 400
    [] severity = "ERROR" -> 500

\* number of entries the logger writes (SpecAudit)
MaxEvents == 2

\* the patient_id arguments of the logger's callers: none, empty, a value
PatientRefs == {None, Str(""), PatientId}

AuditUnchanged ==
  UNCHANGED <<gateVars, nreq, nreg, req, concVars, audio_files, fhir_resources,
              uploads, libVars>>

\* a call of log_data_access
log_data_access ==
  /\ Len(audit_log) < MaxEvents
  /\ \E patient_id \in PatientRefs, success \in BOOLEAN :
       audit_log' = Append(audit_log,
         AuditEvent("DATA_ACCESS", Str("flutter_app"), "AUDIO_FILE", FileName,
                    "READ", patient_id, success,
                    IF success THEN "" ELSE "error"))
  /\ AuditUnchanged

\* a call of log_fhir_access: log_data_access with success left at its default
log_fhir_access ==
  /\ Len(audit_log) < MaxEvents
  /\ \E patient_id \in PatientRefs :
       audit_log' = Append(audit_log,
         AuditEvent("FHIR_ACCESS", Str("flutter_app"), "Bundle", Uuid(1),
                    "CREATE", patient_id, TRUE, ""))
  /\ AuditUnchanged

\* a call of log_admin_action
log_admin_action ==
  /\ Len(audit_log) < MaxEvents
  /\ \E success \in BOOLEAN :
       audit_log' = Append(audit_log,
         AdminEvent(Str("admin"), "DELETE", Str("audio_files"), success))
  /\ AuditUnchanged

\* a call of log_authentication_event
log_authentication_event ==
  /\ Len(audit_log) < MaxEvents
  /\ \E success \in BOOLEAN :
       audit_log' = Append(audit_log,
         AuthEvent(Str("flutter_app"), IF success THEN "LOGIN" ELSE "FAILED_LOGIN",
                   success))
  /\ AuditUnchanged

\* data.get(key, default) on the request's JSON object
DataGet(v, default) == IF v.kind = "none" THEN default ELSE v

(* ---------------------------- assembler -------------------------------- *)
\* a resource dict: keys is the set of its keys, a field whose key is not
\* set holds None
Resource(rt, id, subject, operator, entry) ==
  [resourceType |-> rt, id |-> id, subject |-> subject, operator |-> operator,
   entry |-> entry,
   keys |-> {"resourceType", "id", "meta"}
            \cup (IF subject.kind # "none" THEN {"subject"} ELSE {})
            \cup (IF operator.kind # "none" THEN {"operator"} ELSE {})
            \cup (IF rt = "Bundle" THEN {"entry"} ELSE {})]

NoResource ==
  [resourceType |-> "", id |-> None, subject |-> None, operator |-> None,
   entry |-> <<>>, keys |-> {}]

\* f"Patient/{patient_id}" if patient_id else None
SubjectReference(patient_id) ==
  IF Truthy(patient_id) THEN [patient_id EXCEPT !.prefix = "Patient/"] ELSE None

create_media_resource(id, subject_reference, operator_name) ==
  Resource("Media", id,
           IF Truthy(subject_reference) THEN subject_reference ELSE None,
           IF Truthy(operator_name) THEN operator_name ELSE None, <<>>)

\* a variant that never sets the subject
create_document_reference_nosubject(id, subject_reference) ==
  Resource("DocumentReference", id, None, None, <<>>)

create_document_reference(id, subject_reference) ==
  Resource("DocumentReference", id,
           IF Truthy(subject_reference) THEN subject_reference ELSE None,
           None, <<>>)

\* convert_audio_metadata_to_fhir; ids are the three uuid4() draws
convert_audio_metadata_to_fhir(ids, patient_id, operator_name) ==
  Resource("Bundle", ids[3], None, None,
           << create_media_resource(ids[1], SubjectReference(patient_id), operator_name),
              create_document_reference(ids[2], SubjectReference(patient_id)) >>)

\* a variant of the validator that does not look for the meta block
validate_fhir_resource_nometa(resource) ==
  /\ \A field \in {"resourceType", "id"} : field \in resource.keys
  /\ resource.resourceType \in {"Media", "DocumentReference"}

required_fields == {"resourceType", "id", "meta"}

\* validate_fhir_resource: the loop over required_fields, then the
\* resourceType test
validate_fhir_resource(resource) ==
  /\ \A field \in required_fields : field \in resource.keys
  /\ resource.resourceType \in {"Media", "DocumentReference"}

\* the dict without the keys in dropped
DropKeys(resource, dropped) ==
  [resource EXCEPT !.keys = @ \ dropped,
                   !.resourceType = IF "resourceType" \in dropped THEN "" ELSE @,
                   !.id = IF "id" \in dropped THEN None ELSE @]

\* the Bundle with the keys in dropped taken from the resource of entry i
DropEntryKeys(bundle, i, dropped) ==
  [bundle EXCEPT !.entry[i] = DropKeys(@, dropped)]

\* the metadata a caller hands to convert_audio_metadata_to_fhir
Metadata(patient_id, operator_name) ==
  [patient_id |-> patient_id, operator_name |-> operator_name]
NoMetadata == Metadata(None, None)
MetadataInputs ==
  {Metadata(p, o) :
     p \in {None, Str(""), PatientId, Str("PAT-123456"), encrypt_sensitive_data(PatientId)},
     o \in {None, Str(""), OperatorName}}

Validation(called, resource, valid) ==
  [called |-> called, resource |-> resource, valid |-> valid]
NoValidation == Validation(FALSE, NoResource, FALSE)

FhirUnchanged ==
  UNCHANGED <<gateVars, nreq, nreg, req, concVars, storeVars, readVars, dlpVars>>

\* a call of convert_audio_metadata_to_fhir on the metadata
ConvertAudioMetadataToFhir ==
  /\ fhir_out = NoResource
  /\ fhir_out' = convert_audio_metadata_to_fhir(<<Uuid(1), Uuid(2), Uuid(3)>>,
                                                 fhir_in.patient_id,
                                                 fhir_in.operator_name)
  /\ UNCHANGED <<fhir_in, validation>>
  /\ FhirUnchanged

\* a call of validate_fhir_resource on a resource of the Bundle, or on the
\* Bundle, as assembled or after keys were removed from it
ValidateResource ==
  /\ fhir_out # NoResource
  /\ \E resource \in {fhir_out, fhir_out.entry[1], fhir_out.entry[2]},
        dropped \in SUBSET required_fields :
       validation' = Validation(TRUE, DropKeys(resource, dropped),
                                validate_fhir_resource(DropKeys(resource, dropped)))
  /\ UNCHANGED <<fhir_in, fhir_out>>
  /\ FhirUnchanged

\* a call of validate_fhir_resource on the Bundle after keys were removed
\* from the resource of one of its entries
ValidateBundle ==
  /\ fhir_out # NoResource
  /\ \E i \in 1..Len(fhir_out.entry), dropped \in SUBSET required_fields :
       validation' = Validation(TRUE, DropEntryKeys(fhir_out, i, dropped),
                                validate_fhir_resource(DropEntryKeys(fhir_out, i, dropped)))
  /\ UNCHANGED <<fhir_in, fhir_out>>
  /\ FhirUnchanged

\* uuid4(): values no earlier call returned
FreshIds(r) == << Uuid(3 * r.id - 2), Uuid(3 * r.id - 1), Uuid(3 * r.id) >>

\* the row store_fhir_resource inserts
FhirRow(fhir_resource, patient_id, file_name) ==
  [resource_type |-> fhir_resource.resourceType,
   resource_id |-> fhir_resource.id,
   fhir_resource |-> fhir_resource,
   patient_id |-> patient_id,
   file_name |-> file_name]

(* ------------------------ register_upload_fhir ------------------------- *)
\* an exception leaves the try block of register_upload_fhir
Raise(r, cause) == [r EXCEPT !.pc = "except", !.cause = cause]
\* the request enters a step of the handler
Enter(r, step) == [r EXCEPT !.trace = Append(@, step)]

\* a variant that answers "no PHI" where the scan failed
ScanFailureSwallowed(r) ==
  [r EXCEPT !.pc = "log_phi", !.cause = "scan_error", !.has_phi = FALSE,
            !.risk_level = "LOW"]

\* scan_text_for_phi's "except Exception: logging.error(...); raise"
ScanFailure(r) == Raise(r, "scan_error")

\* a variant that keeps the plaintext and goes on
EncryptFailureFallback(r, next) == [r EXCEPT !.pc = next, !.cause = "encryption_error"]

\* encrypt_sensitive_data's "except Exception: logging.error(...); raise";
\* next is the step the handler would go on with
EncryptFailure(r, next) == Raise(r, "encryption_error")

HandlerUnchanged == UNCHANGED <<gateVars, nreq, nreg, concVars, uploads, libVars>>

\* data = request.get_json().  A body that is not JSON makes get_json raise
\* (data stays unbound) or return None, depending on the Flask release.
GetJson ==
  /\ req.pc = "get_json"
  /\ \/ /\ req.body = "notjson"
        /\ \/ req' = Raise(req, "bad_body")
           \/ req' = [req EXCEPT !.pc = "check_required", !.data = "none"]
     \/ /\ req.body = "null"
        /\ req' = [req EXCEPT !.pc = "check_required", !.data = "none"]
     \/ /\ req.body = "nonobj"
        /\ req' = [req EXCEPT !.pc = "check_required", !.data = "nonobj"]
     \/ /\ req.body = "obj"
        /\ \E present \in {AllFields, AllFields \ {"file_name"}} :
           \E f \in PayloadFields :
             req' = [req EXCEPT !.pc = "check_required", !.data = "obj",
                                !.present = present,
                                !.patient_id = f[1], !.operator_name = f[2],
                                !.encrypted_patient_id = f[1],
                                !.encrypted_operator_name = f[2]]
  /\ UNCHANGED storeVars
  /\ HandlerUnchanged

\* the first of required_fields that data lacks, "" when none
FirstMissing(present) ==
  IF \A i \in 1..Len(RequiredFields) : RequiredFields[i] \in present THEN ""
  ELSE RequiredFields[CHOOSE i \in 1..Len(RequiredFields) :
         /\ RequiredFields[i] \notin present
         /\ \A j \in 1..(i - 1) : RequiredFields[j] \in present]

\* data.get('file_name', 'unknown')
FileNameOf(r) == IF "file_name" \in r.present THEN FileName ELSE Str("unknown")

\* the required-field loop: "field not in data" raises on None, data.get
\* raises on a list or a string; a missing field is audited and answered 400
CheckRequired ==
  /\ req.pc = "check_required"
  /\ LET r == Enter(req, "validate") IN
     \/ /\ r.data \in {"none", "nonobj"}
        /\ req' = Raise(r, "bad_body")
        /\ UNCHANGED audit_log
     \/ /\ r.data = "obj"
        /\ FirstMissing(r.present) = ""
        /\ req' = [r EXCEPT !.pc = "scan"]
        /\ UNCHANGED audit_log
     \/ /\ r.data = "obj"
        /\ FirstMissing(r.present) # ""
        /\ \/ /\ audit_log' = Append(audit_log,
                   AuditEvent("DATA_ACCESS", DataGet(r.operator_name, Str("unknown")),
                              "FHIR_REGISTRATION", FileNameOf(r), "CREATE",
                              r.patient_id, FALSE,
                              "Missing required field: " \o FirstMissing(r.present)))
              /\ req' = Finish(r, 400, "missing_field")
           \/ /\ req' = [Raise(r, "missing_field") EXCEPT !.sinkfail = TRUE]
              /\ UNCHANGED audit_log
  /\ UNCHANGED <<audio_files, fhir_resources>>
  /\ HandlerUnchanged

\* phi_scan = dlp_manager.scan_text_for_phi(json.dumps(data)): the backend
\* call raises, or answers with a list of findings
ScanPhi ==
  /\ req.pc = "scan"
  /\ LET r == Enter(req, "scan") IN
     \/ req' = ScanFailure(r)
     \/ \E findings \in FindingLists :
          req' = [r EXCEPT !.pc = "log_phi",
                           !.has_phi = Len(findings) > 0,
                           !.findings = findings,
                           !.risk_level = _calculate_risk_level(findings)]
  /\ UNCHANGED storeVars
  /\ HandlerUnchanged

\* a variant that never reports
PhiDetectedNever(r) == FALSE

\* if phi_scan['has_phi']:
PhiDetected(r) == r.has_phi

\* if phi_scan['has_phi']: audit_logger.log_data_access(PHI_DETECTION ...)
LogPhiDetection ==
  /\ req.pc = "log_phi"
  /\ \/ /\ ~PhiDetected(req)
        /\ req' = [req EXCEPT !.pc = "encrypt_patient"]
        /\ UNCHANGED audit_log
     \/ /\ PhiDetected(req)
        /\ audit_log' = Append(audit_log,
             AuditEvent("PHI_DETECTION", DataGet(req.operator_name, Str("unknown")),
                        "REQUEST_DATA", FileName, "SCAN", req.patient_id, TRUE, ""))
        /\ req' = [Enter(req, "audit_phi") EXCEPT !.pc = "encrypt_patient"]
     \/ /\ PhiDetected(req)
        /\ req' = [Raise(Enter(req, "audit_phi"), "audit_sink") EXCEPT !.sinkfail = TRUE]
        /\ UNCHANGED audit_log
  /\ UNCHANGED <<audio_files, fhir_resources>>
  /\ HandlerUnchanged

\* if data.get('patient_id'): encrypted_data['patient_id'] = encrypt(...)
EncryptPatient ==
  /\ req.pc = "encrypt_patient"
  /\ \/ /\ ~Truthy(req.patient_id)
        /\ req' = [req EXCEPT !.pc = "encrypt_operator"]
     \/ /\ Truthy(req.patient_id)
        /\ req' = [Enter(req, "encrypt") EXCEPT !.pc = "encrypt_operator",
                     !.encrypted_patient_id = encrypt_sensitive_data(req.patient_id)]
     \/ /\ Truthy(req.patient_id)
        /\ req' = EncryptFailure(Enter(req, "encrypt"), "encrypt_operator")
  /\ UNCHANGED storeVars
  /\ HandlerUnchanged

\* if data.get('operator_name'): encrypted_data['operator_name'] = encrypt(...)
EncryptOperator ==
  /\ req.pc = "encrypt_operator"
  /\ \/ /\ ~Truthy(req.operator_name)
        /\ req' = [req EXCEPT !.pc = "sign_url"]
     \/ /\ Truthy(req.operator_name)
        /\ req' = [Enter(req, "encrypt") EXCEPT !.pc = "sign_url",
                     !.encrypted_operator_name = encrypt_sensitive_data(req.operator_name)]
     \/ /\ Truthy(req.operator_name)
        /\ req' = EncryptFailure(Enter(req, "encrypt"), "sign_url")
  /\ UNCHANGED storeVars
  /\ HandlerUnchanged

\* read_url = storage_handler.get_signed_url(data['file_name'])
GetSignedUrl ==
  /\ req.pc = "sign_url"
  /\ \/ req' = [Enter(req, "sign") EXCEPT !.pc = "store_metadata"]
     \/ req' = Raise(Enter(req, "sign"), "signing_error")
  /\ UNCHANGED storeVars
  /\ HandlerUnchanged

\* a variant that hands over the request's own value
StoredPatientIdPlain(r) == r.patient_id

\* the patient_id and operator_name arguments of store_audio_file_with_fhir:
\* encrypted_data.get(...)
StoredPatientId(r) == r.encrypted_patient_id

StoredOperatorName(r) == r.encrypted_operator_name

\* store_audio_file_with_fhir, first call: store_audio_file_metadata
StoreMetadata ==
  /\ req.pc = "store_metadata"
  /\ LET r == Enter(req, "persist") IN
     \/ /\ audio_files' = Append(audio_files, [file_name |-> FileName, req_id |-> r.id])
        /\ req' = [r EXCEPT !.pc = "convert"]
     \/ /\ req' = Raise(r, "persistence_error")
        /\ UNCHANGED audio_files
  /\ UNCHANGED <<audit_log, fhir_resources>>
  /\ HandlerUnchanged

\* store_audio_file_with_fhir, second call: the bundle is assembled
ConvertToFhir ==
  /\ req.pc = "convert"
  /\ req' = [Enter(req, "assemble") EXCEPT !.pc = "store_fhir",
               !.bundle = << convert_audio_metadata_to_fhir(
                               FreshIds(req), StoredPatientId(req),
                               StoredOperatorName(req)) >>]
  /\ UNCHANGED storeVars
  /\ HandlerUnchanged

\* the resources store_audio_file_with_fhir stores, in its order: the
\* Bundle, then each entry's resource
ResourcesToStore(bundle) ==
  <<bundle>> \o [i \in 1..Len(bundle.entry) |-> bundle.entry[i]]

\* store_fhir_resource for the next resource; an insert that reports errors
\* raises and leaves the rows inserted so far
StoreFhir ==
  /\ req.pc = "store_fhir"
  /\ LET todo == ResourcesToStore(req.bundle[1])
         r == Enter(req, "persist") IN
     \/ /\ fhir_resources' = Append(fhir_resources,
               FhirRow(todo[r.stored + 1], StoredPatientId(r), FileName))
        /\ req' = [r EXCEPT !.stored = @ + 1,
                     !.pc = IF r.stored + 1 = Len(todo) THEN "log_fhir_access"
                            ELSE "store_fhir"]
     \/ /\ req' = Raise(r, "persistence_error")
        /\ UNCHANGED fhir_resources
  /\ UNCHANGED <<audit_log, audio_files>>
  /\ HandlerUnchanged

\* audit_logger.log_fhir_access(... "Bundle", bundle id, "CREATE" ...) and
\* the success response
LogFhirAccess ==
  /\ req.pc = "log_fhir_access"
  /\ LET r == Enter(req, "audit") IN
     \/ /\ audit_log' = Append(audit_log,
             AuditEvent("FHIR_ACCESS", DataGet(r.operator_name, Str("system")),
                        "Bundle", r.bundle[1].id, "CREATE", r.patient_id, TRUE, ""))
        /\ req' = Finish(r, 200, "")
     \/ /\ req' = [Raise(r, "audit_sink") EXCEPT !.sinkfail = TRUE]
        /\ UNCHANGED audit_log
  /\ UNCHANGED <<audio_files, fhir_resources>>
  /\ HandlerUnchanged

\* except Exception as e: the arguments of the audit call read data.get,
\* which raises again when data is bound to something that is no dict; the
\* audit call can raise too; either way the exception leaves the handler
\* and Flask answers 500
ExceptHandler ==
  /\ req.pc = "except"
  /\ \/ /\ req.data \in {"none", "nonobj"}
        /\ req' = [Finish(req, 500, req.cause) EXCEPT !.response = FlaskError]
        /\ UNCHANGED audit_log
     \/ /\ req.data \in {"unbound", "obj"}
        /\ audit_log' = Append(audit_log,
             AuditEvent("ERROR",
                        IF req.data = "obj" THEN DataGet(req.operator_name, Str("unknown"))
                        ELSE Str("unknown"),
                        "FHIR_REGISTRATION",
                        IF req.data = "obj" THEN FileNameOf(req) ELSE Str("unknown"),
                        "CREATE",
                        IF req.data = "obj" THEN req.patient_id ELSE None,
                        FALSE, req.cause))
        /\ req' = Finish(req, 500, req.cause)
     \/ /\ req.data \in {"unbound", "obj"}
        /\ req' = [Finish(req, 500, req.cause) EXCEPT !.sinkfail = TRUE,
                                                       !.response = FlaskError]
        /\ UNCHANGED audit_log
  /\ UNCHANGED <<audio_files, fhir_resources>>
  /\ HandlerUnchanged

(* ----------------------------- upload_audio ---------------------------- *)
\* upload_audio: reads the attachment named 'audio'; uploads the blob, then
\* inserts the audio_records row
UploadAudio ==
  /\ req.pc = "upload_audio"
  /\ \/ /\ req.upload_field # "audio"
        /\ req' = Finish(req, 400, "no_audio")
        /\ UNCHANGED uploads
     \/ /\ req.upload_field = "audio"
        /\ \/ /\ req' = Finish(Enter(req, "persist"), 500, "upload_failed")
              /\ UNCHANGED uploads
           \/ /\ uploads' = Append(uploads, [ext_ok |-> req.ext_ok, row |-> FALSE,
                                              req_id |-> req.id])
              /\ req' = Finish(Enter(req, "persist"), 500, "insert_failed")
           \/ /\ uploads' = Append(uploads, [ext_ok |-> req.ext_ok, row |-> TRUE,
                                              req_id |-> req.id])
              /\ req' = Finish(Enter(req, "persist"), 200, "")
  /\ UNCHANGED <<gateVars, nreq, nreg, concVars, audit_log, audio_files, fhir_resources,
                 libVars>>

(* ------------------------- get_medical_records ------------------------- *)
\* number of registrations whose rows the store holds at the start (SpecRead)
MaxStored == 2

\* LIMIT 20 of the query
QueryLimit == 20

\* base64.b64encode: four characters for every three bytes, padded
B64Len(n) == 4 * ((n + 2) \div 3)

\* the size of the ciphertext client.encrypt answers with: the plaintext and
\* the key-version header, nonce and tag Cloud KMS adds
KmsCiphertextLen(n) == n + 60

\* len() of a value that is a str
PyLen(v) ==
  CASE v.kind = "str" -> Len(v.prefix) + Len(v.pt)
    [] v.kind = "b64" -> Len(v.prefix) + B64Len(KmsCiphertextLen(Len(v.pt)))
    [] v.kind = "uuid" -> 36
    [] OTHER -> 0

DecryptionError == Val("error", "", 0)

\* a variant that hands the text on undecoded
B64DecodeSkipped(c) == c

\* base64.b64decode(ciphertext_b64.encode('utf-8')): the ciphertext when
\* the text is base64 of one, other bytes when it is not
B64Decode(c) ==
  IF c.kind = "b64" /\ c.prefix = "" THEN [c EXCEPT !.kind = "ciphertext"]
  ELSE [c EXCEPT !.kind = "bytes", !.key = 0]

\* client.decrypt(name=key_name, ciphertext=...).plaintext: KMS answers for
\* a ciphertext made under the named key and refuses anything else
KmsDecrypt(key, c) ==
  IF c.kind = "ciphertext" /\ c.key = key THEN [c EXCEPT !.kind = "bytes", !.key = 0]
  ELSE DecryptionError

\* plaintext.decode('utf-8')
Utf8Decode(b) == [b EXCEPT !.kind = "str"]

\* decrypt_sensitive_data when the KMS is reachable: the plaintext, or
\* DecryptionError where the function raises
decrypt_sensitive_data(ciphertext_b64) ==
  LET plaintext == KmsDecrypt(CryptoKey, B64Decode(ciphertext_b64))
  IN IF plaintext = DecryptionError THEN DecryptionError ELSE Utf8Decode(plaintext)

\* the rows register_upload_fhir leaves in fhir_resources for its id-th
\* request with the given patient_id and operator_name, all inserts
\* succeeding
RowsOfRegistration(id, patient_id, operator_name) ==
  LET r == [NoRequest EXCEPT !.id = id, !.patient_id = patient_id,
              !.operator_name = operator_name,
              !.encrypted_patient_id =
                 IF Truthy(patient_id) THEN encrypt_sensitive_data(patient_id)
                 ELSE patient_id,
              !.encrypted_operator_name =
                 IF Truthy(operator_name) THEN encrypt_sensitive_data(operator_name)
                 ELSE operator_name]
      todo == ResourcesToStore(convert_audio_metadata_to_fhir(
                 FreshIds(r), StoredPatientId(r), StoredOperatorName(r)))
  IN [k \in 1..Len(todo) |-> FhirRow(todo[k], StoredPatientId(r), FileName)]

RECURSIVE StoreOf(_)
StoreOf(regs) ==
  IF regs = <<>> THEN <<>>
  ELSE StoreOf(SubSeq(regs, 1, Len(regs) - 1))
         \o RowsOfRegistration(Len(regs), regs[Len(regs)][1], regs[Len(regs)][2])

\* the payloads of the registrations the store is seeded with
StoredPayloads == PayloadFields \cup {<<Str("7"), None>>}

\* WHERE patient_id IS NOT NULL ORDER BY created_at DESC LIMIT 20
Reverse(q) == [i \in 1..Len(q) |-> q[Len(q) + 1 - i]]
QueryRows(rows) ==
  LET found == Reverse(SelectSeq(rows, LAMBDA row : row.patient_id.kind # "none"))
  IN SubSeq(found, 1, IF Len(found) < QueryLimit THEN Len(found) ELSE QueryLimit)

\* len(row.patient_id) > 50: "Encrypted data"
LooksEncrypted(v) == Truthy(v) /\ PyLen(v) > 50

\* a variant that hands out the stored value where decryption failed
DecryptedPatientIdRaw(row, kms_ok) ==
  IF LooksEncrypted(row.patient_id) /\ kms_ok
       /\ decrypt_sensitive_data(row.patient_id) # DecryptionError
  THEN decrypt_sensitive_data(row.patient_id)
  ELSE row.patient_id

\* decrypted_patient_id of one row; kms_ok: the KMS answers this call
DecryptedPatientId(row, kms_ok) ==
  IF LooksEncrypted(row.patient_id)
  THEN IF kms_ok /\ decrypt_sensitive_data(row.patient_id) # DecryptionError
       THEN decrypt_sensitive_data(row.patient_id)
       ELSE Str("Decryption Failed")
  ELSE IF Truthy(row.patient_id) THEN row.patient_id ELSE Str("Unknown Patient")

\* doctor_name of one row: the name of a Practitioner entry of the stored
\* Bundle; no resource the assembler builds is a Practitioner
DoctorName(row) ==
  IF \E k \in 1..Len(row.fhir_resource.entry) :
       row.fhir_resource.entry[k].resourceType = "Practitioner"
  THEN Str("")
  ELSE Str("Unknown Doctor")

\* the record appended for one row
MedicalRecord(row, kms_ok) ==
  [id |-> row.resource_id, file_name |-> row.file_name,
   patient_id |-> DecryptedPatientId(row, kms_ok),
   doctor |-> DoctorName(row),
   is_encrypted |-> PyLen(row.patient_id) > 50]

ReadUnchanged ==
  UNCHANGED <<gateVars, nreq, nreg, req, concVars, audio_files, fhir_resources,
              uploads, registered, dlpVars, fhirVars>>

\* query_job = bigquery_client.query(query); results = query_job.result()
ReadQuery ==
  /\ read_pc = "idle"
  /\ \/ /\ results' = QueryRows(fhir_resources)
        /\ read_pc' = "loop"
     \/ /\ read_pc' = "except"
        /\ UNCHANGED results
  /\ UNCHANGED <<decrypted_records, read_status, kms_failed, audit_log>>
  /\ ReadUnchanged

\* one turn of "for row in results": the decrypt call, when one is made,
\* answers or raises, and the row's record is appended either way
ReadRow ==
  /\ read_pc = "loop"
  /\ Len(decrypted_records) < Len(results)
  /\ LET row == results[Len(decrypted_records) + 1] IN
     \E kms_ok \in BOOLEAN :
       /\ (~LooksEncrypted(row.patient_id)) => kms_ok
       /\ decrypted_records' = Append(decrypted_records, MedicalRecord(row, kms_ok))
       /\ kms_failed' = Append(kms_failed, ~kms_ok)
  /\ UNCHANGED <<read_pc, results, read_status, audit_log>>
  /\ ReadUnchanged

\* after the loop: the DATA_ACCESS/READ audit entry and the success response
ReadAudit ==
  /\ read_pc = "loop"
  /\ Len(decrypted_records) = Len(results)
  /\ \/ /\ audit_log' = Append(audit_log,
             AuditEvent("DATA_ACCESS", Str("flutter_app"), "MEDICAL_RECORDS",
                        Str("bulk_query"), "READ", None, TRUE, ""))
        /\ read_pc' = "done"
        /\ read_status' = 200
     \/ /\ read_pc' = "except"
        /\ UNCHANGED <<audit_log, read_status>>
  /\ UNCHANGED <<results, decrypted_records, kms_failed>>
  /\ ReadUnchanged

\* except Exception as e: the audit entry with success=False and the 500
\* response; when the audit call raises, Flask answers 500
ReadExcept ==
  /\ read_pc = "except"
  /\ \/ audit_log' = Append(audit_log,
             AuditEvent("DATA_ACCESS", Str("flutter_app"), "MEDICAL_RECORDS",
                        Str("bulk_query"), "READ", None, FALSE, "error"))
     \/ UNCHANGED audit_log
  /\ read_pc' = "done"
  /\ read_status' = 500
  /\ UNCHANGED <<results, decrypted_records, kms_failed>>
  /\ ReadUnchanged

(* ------------------------------ Spec ----------------------------------- *)
Init ==
  /\ limit \in 1..MaxLimit
  /\ window \in 1..MaxWindow
  /\ now = 0
  /\ rate_limit_storage = [c \in Clients |-> <<>>]
  /\ blocked_ips = {}
  /\ sent = [c \in Clients |-> <<>>]
  /\ nreq = 0
  /\ nreg = 0
  /\ req = NoRequest
  /\ thr = EmptyBag
  /\ tally = [c \in Clients |-> [admitted |-> 0, limited |-> 0, blocked |-> 0,
                                  failed |-> 0]]
  /\ audit_log = <<>>
  /\ audio_files = <<>>
  /\ fhir_resources = <<>>
  /\ uploads = <<>>
  /\ read_pc = "idle"
  /\ results = <<>>
  /\ decrypted_records = <<>>
  /\ read_status = 0
  /\ registered = <<>>
  /\ kms_failed = <<>>
  /\ dlp_response = NoResponse
  /\ scan_result = NoScan
  /\ classification = NoClassification
  /\ fhir_in = NoMetadata
  /\ fhir_out = NoResource
  /\ validation = NoValidation

Next ==
  \/ Arrive
  \/ BeforeRequest
  \/ GetJson
  \/ CheckRequired
  \/ ScanPhi
  \/ LogPhiDetection
  \/ EncryptPatient
  \/ EncryptOperator
  \/ GetSignedUrl
  \/ StoreMetadata
  \/ ConvertToFhir
  \/ StoreFhir
  \/ LogFhirAccess
  \/ ExceptHandler
  \/ UploadAudio

\* Spec never advances the clock, so one window length stands for all
InitPipe == Init /\ window = MaxWindow

Spec == InitPipe /\ [][Next]_vars

\* the gatekeeper under sequential traffic, with the clock running
NextGate ==
  \/ ArriveGate
  \/ Tick
  \/ BeforeRequest
  \/ HealthCheck

SpecGate == Init /\ [][NextGate]_vars

(* ---------------------------- SpecConc --------------------------------- *)
\* A request inside before_request on its own thread: pc is the next step,
\* t the value it read from datetime.now(), current_requests the length it
\* read.  Nothing in SecurityMiddleware takes a lock, so the threads
\* interleave between any two accesses of rate_limit_storage or blocked_ips.
Thread(pc, c, t, n) == [pc |-> pc, client |-> c, t |-> t, current_requests |-> n]

Replace(bag, old, new) == (bag (-) SetToBag({old})) (+) SetToBag({new})
Remove(bag, old) == bag (-) SetToBag({old})
Count(c, what) == [tally EXCEPT ![c][what] = @ + 1]

ConcUnchanged == UNCHANGED <<limit, window, nreg, req, storeVars, libVars>>

\* a request is handed to a free thread
ThreadArrive ==
  /\ nreq < MaxConcRequests
  /\ BagCardinality(thr) < NThreads
  /\ \E c \in BusyClients : thr' = thr (+) SetToBag({Thread("blocklist", c, 0, 0)})
  /\ nreq' = nreq + 1
  /\ UNCHANGED <<gateVars, tally>>
  /\ ConcUnchanged

\* before_request up to "now = datetime.now()": the blocklist test
ThreadBlocklist ==
  \E r \in BagToSet(thr) :
    /\ r.pc = "blocklist"
    /\ IF is_ip_blocked(r.client)
       THEN /\ thr' = Remove(thr, r)
            /\ tally' = Count(r.client, "blocked")
            /\ sent' = [sent EXCEPT ![r.client] =
                          Append(Within(@, now - window), Sent(now, FALSE))]
       ELSE /\ thr' = Replace(thr, r, [r EXCEPT !.pc = "prune_test", !.t = now])
            /\ UNCHANGED <<tally, sent>>
    /\ UNCHANGED <<now, rate_limit_storage, blocked_ips, nreq>>
    /\ ConcUnchanged

\* the condition of the "Clean old entries" loop
ThreadPruneTest ==
  \E r \in BagToSet(thr) :
    /\ r.pc = "prune_test"
    /\ LET q == rate_limit_storage[r.client] IN
       thr' = Replace(thr, r,
                [r EXCEPT !.pc = IF q # <<>> /\ Head(q) < r.t - window
                                 THEN "popleft" ELSE "count"])
    /\ UNCHANGED <<gateVars, nreq, tally>>
    /\ ConcUnchanged

\* the body of the loop: popleft(), which raises IndexError on a deque that
\* another thread has emptied since the test
ThreadPopleft ==
  \E r \in BagToSet(thr) :
    /\ r.pc = "popleft"
    /\ LET q == rate_limit_storage[r.client] IN
       IF q = <<>>
       THEN /\ thr' = Remove(thr, r)
            /\ tally' = Count(r.client, "failed")
            /\ UNCHANGED rate_limit_storage
       ELSE /\ rate_limit_storage' = [rate_limit_storage EXCEPT ![r.client] = Tail(q)]
            /\ thr' = Replace(thr, r, [r EXCEPT !.pc = "prune_test"])
            /\ UNCHANGED tally
    /\ UNCHANGED <<limit, window, now, blocked_ips, sent, nreq>>
    /\ ConcUnchanged

\* current_requests = len(self.rate_limit_storage[ip_address])
ThreadCount ==
  \E r \in BagToSet(thr) :
    /\ r.pc = "count"
    /\ thr' = Replace(thr, r,
                [r EXCEPT !.pc = "decide",
                          !.current_requests = Len(rate_limit_storage[r.client])])
    /\ UNCHANGED <<gateVars, nreq, tally>>
    /\ ConcUnchanged

\* the rest of check_rate_limit, on the length read before: refuse (and
\* blocklist), or append the time read at entry
ThreadDecide ==
  \E r \in BagToSet(thr) :
    /\ r.pc = "decide"
    /\ IF OverLimit(r.current_requests, limit)
       THEN /\ blocked_ips' = IF SeverelyOver(r.current_requests, limit)
                              THEN blocked_ips \cup {r.client} ELSE blocked_ips
            /\ tally' = Count(r.client, "limited")
            /\ sent' = [sent EXCEPT ![r.client] =
                          Append(Within(@, now - window), Sent(r.t, FALSE))]
            /\ UNCHANGED rate_limit_storage
       ELSE /\ rate_limit_storage' =
                 [rate_limit_storage EXCEPT ![r.client] = Append(@, r.t)]
            /\ tally' = Count(r.client, "admitted")
            /\ sent' = [sent EXCEPT ![r.client] =
                          Append(Within(@, now - window), Sent(r.t, TRUE))]
            /\ UNCHANGED blocked_ips
    /\ thr' = Remove(thr, r)
    /\ UNCHANGED <<limit, window, now, nreq>>
    /\ ConcUnchanged

\* the clock advances while requests are in flight
ConcTick ==
  /\ now < MaxTime
  /\ now' = now + 1
  /\ sent' = [c \in Clients |-> Within(sent[c], now' - window)]
  /\ UNCHANGED <<limit, window, rate_limit_storage, blocked_ips, nreq, nreg,
                 req, concVars, storeVars, libVars>>

NextConc ==
  \/ ThreadArrive
  \/ ThreadBlocklist
  \/ ThreadPruneTest
  \/ ThreadPopleft
  \/ ThreadCount
  \/ ThreadDecide
  \/ ConcTick

SpecConc == Init /\ [][NextConc]_vars

(* ----------------------------- SpecRead -------------------------------- *)
\* the store as some registrations left it, then one GET /get-medical-records
InitRead ==
  /\ limit = 1
  /\ window = 1
  /\ now = 0
  /\ rate_limit_storage = [c \in Clients |-> <<>>]
  /\ blocked_ips = {}
  /\ sent = [c \in Clients |-> <<>>]
  /\ nreq = 0
  /\ nreg = 0
  /\ req = NoRequest
  /\ thr = EmptyBag
  /\ tally = [c \in Clients |-> [admitted |-> 0, limited |-> 0, blocked |-> 0,
                                  failed |-> 0]]
  /\ audit_log = <<>>
  /\ audio_files = <<>>
  /\ uploads = <<>>
  /\ \E n \in 0..MaxStored : registered \in [1..n -> StoredPayloads]
  /\ fhir_resources = StoreOf(registered)
  /\ read_pc = "idle"
  /\ results = <<>>
  /\ decrypted_records = <<>>
  /\ read_status = 0
  /\ kms_failed = <<>>
  /\ dlp_response = NoResponse
  /\ scan_result = NoScan
  /\ classification = NoClassification
  /\ fhir_in = NoMetadata
  /\ fhir_out = NoResource
  /\ validation = NoValidation

NextRead ==
  \/ ReadQuery
  \/ ReadRow
  \/ ReadAudit
  \/ ReadExcept

SpecRead == InitRead /\ [][NextRead]_vars

(* ----------------------------- SpecScan -------------------------------- *)
\* calls of the PHI scan and of the classification, one after the other
NextScan ==
  \/ ScanTextForPhi
  \/ CreateDataClassification

InitScan ==
  /\ limit = 1
  /\ window = 1
  /\ now = 0
  /\ rate_limit_storage = [c \in Clients |-> <<>>]
  /\ blocked_ips = {}
  /\ sent = [c \in Clients |-> <<>>]
  /\ nreq = 0
  /\ nreg = 0
  /\ req = NoRequest
  /\ thr = EmptyBag
  /\ tally = [c \in Clients |-> [admitted |-> 0, limited |-> 0, blocked |-> 0,
                                  failed |-> 0]]
  /\ audit_log = <<>>
  /\ audio_files = <<>>
  /\ fhir_resources = <<>>
  /\ uploads = <<>>
  /\ read_pc = "idle"
  /\ results = <<>>
  /\ decrypted_records = <<>>
  /\ read_status = 0
  /\ registered = <<>>
  /\ kms_failed = <<>>
  /\ dlp_response \in Responses
  /\ scan_result = NoScan
  /\ classification = NoClassification
  /\ fhir_in = NoMetadata
  /\ fhir_out = NoResource
  /\ validation = NoValidation

SpecScan == InitScan /\ [][NextScan]_vars

(* ----------------------------- SpecFhir -------------------------------- *)
\* the FHIR converter applied to the metadata of an upload, and the
\* validator applied to what it assembled
InitFhir ==
  /\ limit = 1
  /\ window = 1
  /\ now = 0
  /\ rate_limit_storage = [c \in Clients |-> <<>>]
  /\ blocked_ips = {}
  /\ sent = [c \in Clients |-> <<>>]
  /\ nreq = 0
  /\ nreg = 0
  /\ req = NoRequest
  /\ thr = EmptyBag
  /\ tally = [c \in Clients |-> [admitted |-> 0, limited |-> 0, blocked |-> 0,
                                  failed |-> 0]]
  /\ audit_log = <<>>
  /\ audio_files = <<>>
  /\ fhir_resources = <<>>
  /\ uploads = <<>>
  /\ read_pc = "idle"
  /\ results = <<>>
  /\ decrypted_records = <<>>
  /\ read_status = 0
  /\ registered = <<>>
  /\ kms_failed = <<>>
  /\ dlp_response = NoResponse
  /\ scan_result = NoScan
  /\ classification = NoClassification
  /\ fhir_in \in MetadataInputs
  /\ fhir_out = NoResource
  /\ validation = NoValidation

NextFhir ==
  \/ ConvertAudioMetadataToFhir
  \/ ValidateResource
  \/ ValidateBundle

SpecFhir == InitFhir /\ [][NextFhir]_vars

(* ---------------------------- SpecBlocked ------------------------------ *)
\* the client the unsynchronised appends of concurrent requests have put on
\* the blocklist
BlockedClient == "10.0.0.2"

\* Sequential traffic after one client was blocklisted at time 0: its window
\* still holds the 2 x limit + 1 timestamps that a further request found,
\* and that request was refused.
InitBlocked ==
  /\ limit \in 1..MaxLimit
  /\ window \in 1..MaxWindow
  /\ now = 0
  /\ rate_limit_storage =
       [c \in Clients |-> IF c = BlockedClient THEN [i \in 1..(2 * limit + 1) |-> 0]
                          ELSE <<>>]
  /\ blocked_ips = {BlockedClient}
  /\ sent = [c \in Clients |->
               IF c = BlockedClient
               THEN [i \in 1..(2 * limit + 2) |-> Sent(0, i <= 2 * limit + 1)]
               ELSE <<>>]
  /\ nreq = 0
  /\ nreg = 0
  /\ req = NoRequest
  /\ thr = EmptyBag
  /\ tally = [c \in Clients |-> [admitted |-> 0, limited |-> 0, blocked |-> 0,
                                  failed |-> 0]]
  /\ audit_log = <<>>
  /\ audio_files = <<>>
  /\ fhir_resources = <<>>
  /\ uploads = <<>>
  /\ read_pc = "idle"
  /\ results = <<>>
  /\ decrypted_records = <<>>
  /\ read_status = 0
  /\ registered = <<>>
  /\ kms_failed = <<>>
  /\ dlp_response = NoResponse
  /\ scan_result = NoScan
  /\ classification = NoClassification
  /\ fhir_in = NoMetadata
  /\ fhir_out = NoResource
  /\ validation = NoValidation

SpecBlocked == InitBlocked /\ [][NextGate]_vars

(* ---------------------------- SpecInspect ------------------------------ *)
\* one request goes through before_request; one of its inspected strings is
\* any of Contents, the other one of OtherContents
InitInspect ==
  /\ Init
  /\ limit = MaxLimit
  /\ window = MaxWindow

ArriveInspect ==
  /\ req.pc = "idle"
  /\ nreq = 0
  /\ \E body \in {"notjson", "invalid", "null", "nonobj", "obj"},
        content \in Contents, other \in OtherContents, in_args \in BOOLEAN :
       req' = IF in_args THEN InspectRequest("10.0.0.1", body, content, other)
              ELSE InspectRequest("10.0.0.1", body, other, content)
  /\ nreq' = nreq + 1
  /\ UNCHANGED <<gateVars, nreg, concVars, storeVars, libVars>>

NextInspect ==
  \/ ArriveInspect
  \/ BeforeRequest
  \/ HealthCheck

SpecInspect == InitInspect /\ [][NextInspect]_vars

(* ----------------------------- SpecAudit ------------------------------- *)
\* the operations of the audit logger, called in any order
NextAudit ==
  \/ log_data_access
  \/ log_fhir_access
  \/ log_admin_action
  \/ log_authentication_event

SpecAudit == InitPipe /\ [][NextAudit]_vars

(* ------------------- properties of the gatekeeper ---------------------- *)
\* C1: for every client and every limit/window configuration, when exactly
\* `limit` requests of the client were admitted within the current window,
\* the client's next request inside that window is refused as rate limited:
\* before_request answers 429 and the window gets no new timestamp.
C1_NextAfterLimitIsRateLimited ==
  [][(/\ req.pc = "before_request"
      /\ req'.pc # "before_request"
      /\ AdmittedInWindow(req.client) = limit)
     => (/\ req'.pc = "done"
         /\ req'.status = 429
         /\ req'.cause = "rate_limited"
         /\ Len(rate_limit_storage'[req.client]) = limit)]_vars

\* a client with `limit` admitted requests in the window has just been
\* answered 429
C1_Witness ==
  /\ req.pc = "done"
  /\ req.status = 429
  /\ limit = MaxLimit
  /\ AdmittedInWindow(req.client) = limit
  /\ SentInWindow(req.client) = limit + 1

\* C2: a client that has sent more than 2 x limit requests within one window
\* is a member of the blocklist (and so stays rejected afterwards).
C2_BlocklistedAfterTwiceLimit ==
  \A c \in Clients : SentInWindow(c) > 2 * limit => c \in blocked_ips

\* C3: when N requests of one client run check_rate_limit concurrently with
\* limit L < N inside one window, the window never holds more than L
\* timestamps, and once all have returned exactly L were admitted and N - L
\* were rate limited.
C3_ExactlyLimitAdmitted ==
  \A c \in BusyClients :
    /\ Len(SelectSeq(rate_limit_storage[c], LAMBDA t : t >= now - window)) <= limit
    /\ (thr = EmptyBag /\ now = 0 /\ nreq > limit)
         => (tally[c].admitted = limit /\ tally[c].limited = nreq - limit)

\* C4: a request of a blocklisted client that takes the first step of
\* before_request is rejected there (403): it leaves before_request without
\* reaching the rate limiter, whatever its window holds.
C4_BlocklistPrecedesRateLimit ==
  [][\A c \in Clients :
       (/\ c \in blocked_ips
        /\ CopiesIn(Thread("blocklist", c, 0, 0), thr')
             < CopiesIn(Thread("blocklist", c, 0, 0), thr))
       => (/\ BagCardinality(thr') = BagCardinality(thr) - 1
           /\ tally'[c] = [tally[c] EXCEPT !.blocked = @ + 1]
           /\ rate_limit_storage' = rate_limit_storage
           /\ blocked_ips' = blocked_ips)]_vars

\* a blocklisted client was rejected while its window held no timestamp
\* younger than the window
C4_Witness ==
  \E c \in Clients :
    /\ c \in blocked_ips
    /\ tally[c].blocked > 0
    /\ sent[c] # <<>>
    /\ ~sent[c][Len(sent[c])].admitted
    /\ sent[c][Len(sent[c])].t = now
    /\ \A i \in 1..Len(rate_limit_storage[c]) : rate_limit_storage[c][i] < now - window

(* -------------------- properties of the pipeline ----------------------- *)
\* what the stores and the audit log hold of request r
FhirRowsOf(r) ==
  SelectSeq(fhir_resources,
            LAMBDA row : \E k \in 1..3 : row.resource_id = FreshIds(r)[k])
AudioRowsOf(r) == SelectSeq(audio_files, LAMBDA row : row.req_id = r.id)
UploadsOf(r) == SelectSeq(uploads, LAMBDA row : row.req_id = r.id)
EventsOf(r) == SelectSeq(audit_log, LAMBDA e : e.req_id = r.id)
Attempted(r, steps) == \E i \in 1..Len(r.trace) : r.trace[i] \in steps

\* the patient and operator values a fhir_resources row carries: its
\* patient_id column, and the subject reference and operator display of the
\* stored resource and of a stored Bundle's entries
SensitiveValues(row) ==
  {row.patient_id, row.fhir_resource.subject, row.fhir_resource.operator}
  \cup {row.fhir_resource.entry[k].subject : k \in 1..Len(row.fhir_resource.entry)}
  \cup {row.fhir_resource.entry[k].operator : k \in 1..Len(row.fhir_resource.entry)}

\* C5: on the register-encrypted-upload path every non-empty patient or
\* operator value handed to a persistence write is the output of
\* encrypt_sensitive_data: the rows of a request with a non-empty patient_id
\* (operator_name) carry its ciphertext, never the plaintext.
C5_OnlyCiphertextPersisted ==
  /\ \A i \in 1..Len(fhir_resources) :
       \A v \in SensitiveValues(fhir_resources[i]) :
         Truthy(v) => [v EXCEPT !.prefix = ""] = encrypt_sensitive_data(Str(v.pt))
  /\ \A i \in 1..Len(FhirRowsOf(req)) :
       LET row == FhirRowsOf(req)[i]
           res == row.fhir_resource
       IN /\ Truthy(req.patient_id) =>
               /\ row.patient_id = encrypt_sensitive_data(req.patient_id)
               /\ res.resourceType \in {"Media", "DocumentReference"} =>
                    res.subject = [encrypt_sensitive_data(req.patient_id)
                                     EXCEPT !.prefix = "Patient/"]
          /\ (Truthy(req.operator_name) /\ res.resourceType = "Media") =>
               res.operator = encrypt_sensitive_data(req.operator_name)

\* the Media row of a request that gave both values is stored
C5_Witness ==
  /\ Truthy(req.patient_id)
  /\ Truthy(req.operator_name)
  /\ \E i \in 1..Len(FhirRowsOf(req)) :
       /\ FhirRowsOf(req)[i].resource_type = "Media"
       /\ FhirRowsOf(req)[i].patient_id.kind = "b64"
       /\ FhirRowsOf(req)[i].fhir_resource.operator.kind = "b64"

\* the causes for which register_upload_fhir answers with a failure
RegisterFailureCauses ==
  {"missing_field", "bad_body", "scan_error", "encryption_error",
   "signing_error", "persistence_error"}

\* C6: every execution of register_upload_fhir that ends with a failure
\* response (for any of the causes above, the audit sink working) has
\* appended an audit event with success = false and an error message.
C6_FailureIsAudited ==
  (/\ req.pc = "done"
   /\ req.path = "/register-upload-fhir"
   /\ req.cause \in RegisterFailureCauses
   /\ ~req.sinkfail)
  => \E i \in 1..Len(EventsOf(req)) :
       /\ ~EventsOf(req)[i].success
       /\ EventsOf(req)[i].error_message # ""

\* C7: when the PHI scan fails the failure propagates: no scan result (and
\* so no has_phi = false) is yielded, the handler attempts no encryption and
\* no persistence write for the request, and the caller gets a failure
\* response.
C7_ScanFailurePropagates ==
  req.cause = "scan_error" =>
    /\ req.pc \in {"except", "done"}
    /\ req.risk_level = ""
    /\ ~Attempted(req, {"encrypt", "sign", "persist", "assemble"})
    /\ req.encrypted_patient_id = req.patient_id
    /\ req.encrypted_operator_name = req.operator_name
    /\ FhirRowsOf(req) = <<>>
    /\ AudioRowsOf(req) = <<>>
    /\ req.pc = "done" => req.status = 500

\* a request whose scan failed has been answered
C7_Witness ==
  /\ req.pc = "done"
  /\ req.cause = "scan_error"
  /\ req.status = 500
  /\ Truthy(req.patient_id)

\* C8: when encrypting the patient id or the operator name fails, no
\* persistence write (metadata row, Bundle row, resource row) is attempted
\* for the request, and it is answered with a failure.
C8_NoWriteAfterEncryptionFailure ==
  req.cause = "encryption_error" =>
    /\ ~Attempted(req, {"persist"})
    /\ FhirRowsOf(req) = <<>>
    /\ AudioRowsOf(req) = <<>>
    /\ req.pc = "done" => req.status = 500

\* a request whose operator name could not be encrypted, after its patient
\* id was, has been answered
C8_Witness ==
  /\ req.pc = "done"
  /\ req.cause = "encryption_error"
  /\ req.status = 500
  /\ req.encrypted_patient_id.kind = "b64"
  /\ req.encrypted_operator_name = req.operator_name

\* a registration that succeeded and whose scan found PHI
PhiRegistrationDone(r) ==
  /\ r.pc = "done"
  /\ r.path = "/register-upload-fhir"
  /\ r.status = 200
  /\ r.has_phi

\* C9 as stated: for every successful registration whose scan detects PHI
\* the audit log holds a PHI_DETECTION event and a later FHIR_ACCESS/CREATE
\* event, both for the request's file name.
C9_BothEventsNameTheFile ==
  PhiRegistrationDone(req) =>
    \E i, j \in 1..Len(EventsOf(req)) :
      /\ i < j
      /\ EventsOf(req)[i].event_type = "PHI_DETECTION"
      /\ EventsOf(req)[i].resource_id = FileName
      /\ EventsOf(req)[j].event_type = "FHIR_ACCESS"
      /\ EventsOf(req)[j].action = "CREATE"
      /\ EventsOf(req)[j].resource_id = FileName

\* C9: for every successful registration whose scan detects PHI the audit
\* log holds a PHI_DETECTION event for the request's file name and, after
\* it, a FHIR_ACCESS/CREATE event of the same request whose resource is the
\* created Bundle, named by the Bundle's id.
C9_PhiDetectionBeforeBundleCreate ==
  PhiRegistrationDone(req) =>
    \E i, j \in 1..Len(EventsOf(req)) :
      /\ i < j
      /\ EventsOf(req)[i].event_type = "PHI_DETECTION"
      /\ EventsOf(req)[i].resource_id = FileName
      /\ EventsOf(req)[j].event_type = "FHIR_ACCESS"
      /\ EventsOf(req)[j].action = "CREATE"
      /\ EventsOf(req)[j].resource_type = "Bundle"
      /\ EventsOf(req)[j].resource_id = req.bundle[1].id
      /\ EventsOf(req)[j].resource_id = FhirRowsOf(req)[1].resource_id

\* a registration with an SSN-shaped patient id succeeded, its scan reporting
\* a high risk
C9_Witness ==
  /\ PhiRegistrationDone(req)
  /\ req.risk_level = "HIGH"
  /\ req.patient_id = PatientId

\* the refusals of before_request
GateCauses ==
  {"blocklisted", "rate_limited", "malicious_content", "invalid_healthcare_request"}

\* C10: while a request is in before_request, and ever after when
\* before_request refused it, the request has entered no step of a handler
\* (no PHI scan, no encryption, no persistence attempt) and neither the
\* stores nor the audit log hold anything of it.
C10_AdmissionPrecedesPipeline ==
  (req.pc = "before_request" \/ req.cause \in GateCauses) =>
    /\ req.trace = <<>>
    /\ req.data = "unbound"
    /\ EventsOf(req) = <<>>
    /\ FhirRowsOf(req) = <<>>
    /\ AudioRowsOf(req) = <<>>
    /\ UploadsOf(req) = <<>>

\* a registration refused by the rate limiter, and another request that
\* touched a store before it
C10_Witness ==
  /\ req.pc = "done"
  /\ req.path = "/register-upload-fhir"
  /\ req.body = "obj"
  /\ req.cause = "rate_limited"
  /\ req.status = 429
  /\ uploads # <<>>

\* a registration that went through register_upload_fhir
Registration(r) == r.path = "/register-upload-fhir" /\ r.pc \notin {"idle", "before_request"}

\* C11: an audit write that fails does not raise to the caller: a request
\* one of whose audit writes failed is never taken to the except block by
\* that failure, and a registration all of whose rows were written is
\* answered with the success response.
C11_AuditFailureNotRaised ==
  Registration(req) =>
    /\ req.cause # "audit_sink"
    /\ (req.pc = "done" /\ Len(FhirRowsOf(req)) = 3) => req.status = 200

\* the steps of the pipeline, in the order the use case gives them
StepRank(step) ==
  CASE step = "validate" -> 1
    [] step = "scan" -> 2
    [] step = "audit_phi" -> 2
    [] step = "encrypt" -> 3
    [] step = "sign" -> 3
    [] step = "assemble" -> 4
    [] step = "persist" -> 5
    [] step = "audit" -> 6

\* C12: a successful registration has gone through validate, scan, encrypt,
\* assemble, persist, audit in that order, none skipped (encrypt when there
\* is a value to encrypt), and at no time does a store hold a row of a
\* request whose bundle is not assembled yet.
C12_StepsInOrder ==
  /\ (Registration(req) /\ req.pc = "done" /\ req.status = 200) =>
       /\ \A i, j \in 1..Len(req.trace) :
            i < j => StepRank(req.trace[i]) <= StepRank(req.trace[j])
       /\ \A step \in {"validate", "scan", "assemble", "persist", "audit"} :
            Attempted(req, {step})
       /\ (Truthy(req.patient_id) \/ Truthy(req.operator_name)) =>
            Attempted(req, {"encrypt"})
  /\ Registration(req) =>
       ((AudioRowsOf(req) # <<>> \/ FhirRowsOf(req) # <<>>) => req.bundle # <<>>)

\* C13: once store_audio_file_with_fhir has returned or raised, either the
\* metadata row, the Bundle row and both resource rows of the registration
\* are written, or the operation failed and no row of it is written.
C13_AllOrNothing ==
  (/\ Registration(req)
   /\ Attempted(req, {"persist"})
   /\ req.pc \in {"log_fhir_access", "except", "done"})
  => \/ /\ Len(AudioRowsOf(req)) = 1
        /\ Len(FhirRowsOf(req)) = 3
        /\ req.cause # "persistence_error"
     \/ /\ req.cause = "persistence_error"
        /\ AudioRowsOf(req) = <<>>
        /\ FhirRowsOf(req) = <<>>

(* -------------------- properties of the read path ---------------------- *)
\* the registration a row of the store belongs to
RegistrationOf(row) == (row.resource_id.key + 2) \div 3

\* C14: in get_medical_records every turn of the row loop appends the record
\* of its row and stays in the loop: a row whose patient field is longer
\* than 50 characters and whose decryption fails gets the patient value
\* "Decryption Failed", the records built before are kept, the listing is
\* never left before every row has its record, and the response that
\* follows the listing is the success response.
C14_DecryptionFailureDegrades ==
  [][/\ (read_pc = "loop" /\ Len(decrypted_records) < Len(results)) =>
          /\ read_pc' = "loop"
          /\ Len(decrypted_records') = Len(decrypted_records) + 1
          /\ SubSeq(decrypted_records', 1, Len(decrypted_records)) = decrypted_records
          /\ LET i == Len(decrypted_records')
                 row == results[i]
                 rec == decrypted_records'[i]
             IN /\ rec.id = row.resource_id
                /\ (PyLen(row.patient_id) > 50 /\ kms_failed'[i]) =>
                     rec.patient_id = Str("Decryption Failed")
                /\ (~kms_failed'[i]) => rec.patient_id # Str("Decryption Failed")
     /\ (read_pc = "loop" /\ read_pc' = "done") =>
          /\ read_status' = 200
          /\ Len(decrypted_records) = Len(results)
     /\ (read_pc = "loop" /\ read_pc' = "except") =>
          Len(decrypted_records) = Len(results)]_vars

\* a listing that was answered 200 holds a record whose decryption failed
\* and one whose decryption succeeded
C14_Witness ==
  /\ read_pc = "done"
  /\ read_status = 200
  /\ \E i, j \in 1..Len(decrypted_records) :
       /\ kms_failed[i]
       /\ decrypted_records[i].patient_id = Str("Decryption Failed")
       /\ ~kms_failed[j]
       /\ LooksEncrypted(results[j].patient_id)
       /\ decrypted_records[j].patient_id = PatientId

\* C15: for every plaintext of length at least 1, decrypt_sensitive_data of
\* encrypt_sensitive_data of it is the plaintext; so every record of a
\* listing whose decrypt call answered carries the patient id its
\* registration was given.
C15_EncryptDecryptRoundTrip ==
  /\ \A k \in 1..Len(registered) : \A f \in 1..2 :
       Truthy(registered[k][f]) =>
         decrypt_sensitive_data(encrypt_sensitive_data(registered[k][f]))
           = registered[k][f]
  /\ \A i \in 1..Len(decrypted_records) :
       LET p == registered[RegistrationOf(results[i])][1]
       IN (Truthy(p) /\ ~kms_failed[i]) => decrypted_records[i].patient_id = p

\* a listing holds the decrypted one-character patient id of one
\* registration and the decrypted eleven-character one of another
C15_Witness ==
  \E i, j \in 1..Len(decrypted_records) :
    /\ ~kms_failed[i]
    /\ results[i].patient_id = encrypt_sensitive_data(Str("7"))
    /\ decrypted_records[i].patient_id = Str("7")
    /\ ~kms_failed[j]
    /\ results[j].patient_id = encrypt_sensitive_data(PatientId)
    /\ decrypted_records[j].patient_id = PatientId

(* ---------------------- properties of the scan ------------------------- *)
\* C16: for every non-empty list of findings the risk level is HIGH when a
\* finding is a social security number, a medical record number or a date
\* of birth, otherwise MEDIUM when there are more than 3 findings,
\* otherwise LOW.
C16_RiskLevel ==
  (scan_result.called /\ scan_result.findings # <<>>) =>
    LET findings == scan_result.findings
        high == \E i \in 1..Len(findings) :
                  findings[i].info_type \in
                    {"US_SOCIAL_SECURITY_NUMBER", "MEDICAL_RECORD_NUMBER", "DATE_OF_BIRTH"}
    IN scan_result.risk_level =
         IF high THEN "HIGH" ELSE IF Len(findings) > 3 THEN "MEDIUM" ELSE "LOW"

\* a scan whose only high-risk finding, the fourth, is a date of birth
C16_Witness ==
  /\ scan_result.called
  /\ scan_result.findings_count = 4
  /\ scan_result.findings[4].info_type = "DATE_OF_BIRTH"
  /\ \A i \in 1..3 : scan_result.findings[i].info_type = "PERSON_NAME"
  /\ scan_result.risk_level = "HIGH"

\* C17: a scan with zero findings returns has_phi = false and no risk level
\* (not applicable), and its classification is PUBLIC with confidence 0.95.
C17_NoFindings ==
  (scan_result.called /\ scan_result.findings_count = 0) =>
    /\ ~scan_result.has_phi
    /\ scan_result.risk_level \notin {"LOW", "MEDIUM", "HIGH"}
    /\ classification.called =>
         (classification.classification = "PUBLIC" /\ classification.confidence = 950)

\* C18: the classification of a scan result with n findings is
\* HIGHLY_SENSITIVE when n > 5, SENSITIVE when 2 < n <= 5,
\* POTENTIALLY_SENSITIVE when 0 < n <= 2 and PUBLIC when n = 0.
C18_Classification ==
  classification.called =>
    LET n == Len(scan_result.findings)
    IN classification.classification =
         CASE n > 5 -> "HIGHLY_SENSITIVE"
           [] n > 2 /\ n <= 5 -> "SENSITIVE"
           [] n > 0 /\ n <= 2 -> "POTENTIALLY_SENSITIVE"
           [] n = 0 -> "PUBLIC"

\* five findings were classified SENSITIVE
C18_Witness ==
  /\ classification.called
  /\ scan_result.findings_count = 5
  /\ classification.classification = "SENSITIVE"

(* ------------------- properties of the audit logger -------------------- *)
\* C19: every audit entry recorded with success = false, by any operation
\* of the logger, has a severity of at least WARNING, and severity ERROR
\* when it is a data-access failure.
C19_FailuresAreElevated ==
  \A i \in 1..Len(audit_log) :
    LET e == audit_log[i]
    IN ~e.success =>
         /\ SeverityRank(e.severity) >= SeverityRank("WARNING")
         /\ e.event_type \notin {"ADMIN_ACTION", "AUTH_EVENT"} => e.severity = "ERROR"

\* C20: every audit entry carries the compliance label hipaa, the data-type
\* label phi exactly when a patient reference is present and system
\* otherwise, and the compliance category HIPAA_PHI_ACCESS exactly when a
\* patient reference is present and SYSTEM_ACCESS otherwise.
C20_LabelsFollowPatientReference ==
  \A i \in 1..Len(audit_log) :
    LET e == audit_log[i]
    IN /\ e.compliance = "hipaa"
       /\ e.data_type = IF Truthy(e.patient_id) THEN "phi" ELSE "system"
       /\ e.compliance_category =
            IF Truthy(e.patient_id) THEN "HIPAA_PHI_ACCESS" ELSE "SYSTEM_ACCESS"

(* ------------------- properties of the assembler ----------------------- *)
\* C21: the assembled Bundle has exactly two entries, the Media resource
\* first and the DocumentReference second; when a patient reference p is
\* given both carry the subject reference "Patient/p", and when none is
\* given neither carries a subject.
C21_BundleShape ==
  fhir_out # NoResource =>
    /\ fhir_out.resourceType = "Bundle"
    /\ Len(fhir_out.entry) = 2
    /\ fhir_out.entry[1].resourceType = "Media"
    /\ fhir_out.entry[2].resourceType = "DocumentReference"
    /\ \A i \in 1..2 :
         IF Truthy(fhir_in.patient_id)
         THEN /\ "subject" \in fhir_out.entry[i].keys
              /\ fhir_out.entry[i].subject.prefix = "Patient/"
              /\ [fhir_out.entry[i].subject EXCEPT !.prefix = ""] = fhir_in.patient_id
         ELSE "subject" \notin fhir_out.entry[i].keys

\* a Bundle was assembled for patient PAT-123456
C21_Witness ==
  /\ fhir_in.patient_id = Str("PAT-123456")
  /\ fhir_out.resourceType = "Bundle"
  /\ fhir_out.entry[2].subject = [Str("PAT-123456") EXCEPT !.prefix = "Patient/"]

\* C22: validate_fhir_resource accepts a resource exactly when it carries
\* resourceType, id and meta and its resourceType is Media or
\* DocumentReference; a Bundle is rejected whenever resourceType is missing
\* from either of its entries, and every Media and DocumentReference the
\* assembler produced is accepted.
C22_Validator ==
  /\ validation.called =>
       LET resource == validation.resource
       IN /\ validation.valid <=>
               /\ {"resourceType", "id", "meta"} \subseteq resource.keys
               /\ resource.resourceType \in {"Media", "DocumentReference"}
          /\ (/\ resource.resourceType = "Bundle"
              /\ \E i \in 1..Len(resource.entry) :
                   "resourceType" \notin resource.entry[i].keys)
               => ~validation.valid
  /\ fhir_out # NoResource =>
       \A i \in 1..Len(fhir_out.entry) : validate_fhir_resource(fhir_out.entry[i])

\* the validator was called on an assembled resource that had lost its meta
\* block only, and rejected it
C22_Witness ==
  /\ validation.called
  /\ validation.resource.resourceType = "Media"
  /\ validation.resource.keys \cap {"resourceType", "id", "meta"} = {"resourceType", "id"}
  /\ ~validation.valid

(* ---------------- properties of the content inspection ----------------- *)
\* the content, taken without regard to case, matches one of the patterns
MatchesIgnoringCase(content) ==
  \E pattern \in suspicious_patterns : re_search(pattern, Lower(content))

\* one of the strings content inspection looks at matches
SomeFieldMatches(r) ==
  \/ MatchesIgnoringCase(r.args)
  \/ MatchesIgnoringCase(r.json_str)
  \/ MatchesIgnoringCase(r.form)

\* the request reached content inspection and has its answer
Inspected(r) ==
  /\ r.pc \notin {"idle", "before_request"}
  /\ r.cause \notin {"blocklisted", "rate_limited"}

\* C23 (as stated): content inspection rejects a request exactly when at
\* least one inspected string (URL parameter value, decoded JSON body, form
\* field value) matches a suspicious pattern, case-insensitively.
C23_RejectedIffSomeFieldMatches ==
  Inspected(req) => (req.cause = "malicious_content" <=> SomeFieldMatches(req))

\* C23 (amended): content inspection rejects a request exactly when an
\* inspected string matches a suspicious pattern, case-insensitively, or
\* the request declares a JSON body that does not parse.
C23_RejectedIffMatchOrInvalidJson ==
  Inspected(req) =>
    (req.cause = "malicious_content" <=>
       (SomeFieldMatches(req) \/ req.body = "invalid"))

\* a request was rejected for a form field that matches in mixed case only
C23_Witness ==
  /\ req.form = <<"a", "Union", "select">>
  /\ req.args = <<>>
  /\ req.status = 400
  /\ req.cause = "malicious_content"

(* ------------------- properties of the upload route -------------------- *)
\* C24: a request to /upload that carries an attachment whose extension is
\* not in the allow-list is rejected by the gatekeeper (with 400 once it has
\* passed the blocklist and the rate limit), whichever field holds the
\* attachment, so upload_audio never stores such an attachment.
C24_BadExtensionNeverStored ==
  /\ \A i \in 1..Len(uploads) : uploads[i].ext_ok
  /\ (/\ req.path = "/upload"
      /\ req.upload_field # "none"
      /\ ~req.ext_ok
      /\ req.pc \notin {"idle", "before_request"})
       => /\ req.pc = "done"
          /\ req.cause \in {"blocklisted", "rate_limited", "invalid_healthcare_request"}
          /\ req.cause = "invalid_healthcare_request" => req.status = 400

(* -------------------- properties of the response ----------------------- *)
\* C25: the response of a registration carries, on success, the id of the
\* created Bundle and of the PHI scan only the detected flag and the risk
\* level; in no outcome does it carry the findings of the scan or the text
\* one of them matched.
C25_ResponseCarriesSummaryOnly ==
  (Registration(req) /\ req.pc = "done") =>
    /\ req.status = 200 =>
         /\ "fhir_bundle_id" \in req.response.keys
         /\ \E i \in 1..Len(fhir_resources) :
              /\ fhir_resources[i].resource_type = "Bundle"
              /\ fhir_resources[i].resource_id = req.response.fhir_bundle_id
              /\ fhir_resources[i].resource_id = FreshIds(req)[3]
         /\ req.response.security_scan.keys = {"phi_detected", "risk_level"}
         /\ req.response.security_scan.phi_detected = (req.findings # <<>>)
         /\ req.response.security_scan.risk_level = req.risk_level
    /\ "findings" \notin req.response.keys
    /\ "findings" \notin req.response.security_scan.keys
    /\ req.response.security_scan.findings = <<>>
    /\ \A i \in 1..Len(req.findings) : req.findings[i].quote # req.response.error

\* a registration whose scan had findings was answered with success
C25_Witness ==
  /\ Registration(req)
  /\ req.status = 200
  /\ Len(req.findings) = 2
  /\ req.response.security_scan.risk_level = "HIGH"

(* --------------- further properties of the gatekeeper ------------------ *)
\* C26: every call of check_rate_limit that finds a pruned count of at least
\* 2 x limit returns RateLimited and adds the client to the blocklist, the
\* count 2 x limit included.
C26_BlocklistedFromTwiceLimit ==
  [][\A r \in BagToSet(thr) :
       (/\ r.pc = "decide"
        /\ r.current_requests >= 2 * limit
        /\ CopiesIn(r, thr') < CopiesIn(r, thr))
       => (/\ tally'[r.client].limited = tally[r.client].limited + 1
           /\ r.client \in blocked_ips')]_vars

\* C27: a call of check_rate_limit first removes exactly the client's
\* timestamps older than now - window and then compares what is left with
\* limit: a client that is not blocklisted is refused exactly when limit or
\* more of its timestamps are still inside the window, so it is admitted
\* again as soon as enough of them have aged out.
C27_WindowSlides ==
  [][(/\ req.pc = "before_request"
      /\ req'.pc # "before_request"
      /\ req.client \notin blocked_ips)
     => LET kept == SelectSeq(rate_limit_storage[req.client],
                              LAMBDA t : t >= now - window)
        IN /\ rate_limit_storage'[req.client] =
                IF Len(kept) < limit THEN Append(kept, now) ELSE kept
           /\ (req'.cause = "rate_limited") <=> (Len(kept) >= limit)]_vars

\* The third request of a client is admitted at time 2 with limit 1 and
\* window 1, and the other client never sent anything (its first request
\* would have left a timestamp).  The first request was admitted, at time 0:
\* had the second been admitted too, the third would hold against it.  So
\* the second was rate limited, and the third got in after the timestamp 0
\* aged out.
C27_Witness ==
  /\ limit = 1 /\ window = 1 /\ now = 2
  /\ req.id = 3
  /\ req.pc # "before_request"
  /\ req.cause \notin {"blocklisted", "rate_limited"}
  /\ rate_limit_storage[req.client] = <<2>>
  /\ \A c \in Clients \ {req.client} : rate_limit_storage[c] = <<>>

(* --------------- further properties of the read path ------------------- *)
\* C28: a record registered with patient id P and operator name O, both
\* stored as ciphertext longer than 50 characters, is listed by
\* get_medical_records with patient field P and doctor field O (when the
\* decrypt calls answer).
C28_WriteThenRead ==
  \A i \in 1..Len(decrypted_records) :
    LET P == registered[RegistrationOf(results[i])][1]
        O == registered[RegistrationOf(results[i])][2]
    IN (/\ Truthy(P) /\ Truthy(O)
        /\ LooksEncrypted(encrypt_sensitive_data(P))
        /\ LooksEncrypted(encrypt_sensitive_data(O))
        /\ results[i].resource_type = "Bundle"
        /\ ~kms_failed[i])
       => (/\ decrypted_records[i].patient_id = P
           /\ decrypted_records[i].doctor = O)

\* C29: a request that before_request refuses after the rate-limit check,
\* by content inspection or by domain validation, has appended its timestamp
\* to the client's window: the window then holds the timestamps that were
\* still inside it and the request's own.  A request of a blocklisted client
\* is refused with the windows left as they were.
C29_WindowMutatedPastRateLimit ==
  [][(/\ req.pc = "before_request"
      /\ req'.pc # "before_request")
     => LET c == req.client
            kept == SelectSeq(rate_limit_storage[c], LAMBDA t : t >= now - window)
        IN /\ c \in blocked_ips =>
                /\ req'.cause = "blocklisted"
                /\ rate_limit_storage' = rate_limit_storage
           /\ (c \notin blocked_ips
               /\ req'.cause \in {"malicious_content", "invalid_healthcare_request"})
                => /\ Len(kept) < limit
                   /\ rate_limit_storage'[c] = Append(kept, now)
           /\ (c \notin blocked_ips /\ Len(kept) < limit /\ SomeFieldMatches(req))
                => req'.cause = "malicious_content"]_vars

\* a request refused by content inspection has filled the client's window:
\* the window holds limit timestamps, the last one the request's
C29_Witness ==
  /\ req.pc = "done"
  /\ req.cause = "malicious_content"
  /\ req.client \notin blocked_ips
  /\ limit = MaxLimit
  /\ Len(rate_limit_storage[req.client]) = limit
  /\ rate_limit_storage[req.client][limit] = now

\* C30: under sequential execution with one fixed limit no client's window
\* ever holds more than limit timestamps; check_rate_limit appends only when
\* fewer than limit timestamps are left after pruning, a RateLimited call
\* changes the window by pruning only, and a call for one client changes
\* neither the window nor the blocklist membership of another client.
C30_WindowBounded ==
  [][/\ \A c \in Clients : Len(rate_limit_storage'[c]) <= limit'
     /\ limit' = limit
     /\ (req.pc = "before_request" /\ req'.pc # "before_request")
        => LET c == req.client
               kept == SelectSeq(rate_limit_storage[c], LAMBDA t : t >= now - window)
           IN /\ req'.cause = "rate_limited" => rate_limit_storage'[c] = kept
              /\ rate_limit_storage'[c] # kept
                   => (Len(kept) < limit /\ rate_limit_storage'[c] = Append(kept, now))
              /\ \A d \in Clients \ {c} :
                   /\ rate_limit_storage'[d] = rate_limit_storage[d]
                   /\ (d \in blocked_ips') <=> (d \in blocked_ips)]_vars

\* a client is refused with its window full while the other client's window
\* holds a timestamp of its own
C30_Witness ==
  /\ req.pc = "done"
  /\ req.cause = "rate_limited"
  /\ limit = MaxLimit
  /\ Len(rate_limit_storage[req.client]) = limit
  /\ \E d \in Clients \ {req.client} : rate_limit_storage[d] # <<>>

====
